---- MODULE Spec2Model ----
(***************************************************************************)
(* LifeBank Soroban contracts: the inventory contract (blood units) and    *)
(* the requests contract (blood requests).                                 *)
(*                                                                         *)
(* Each contract is deployed on its own, with its own storage; a behaviour *)
(* of this module is the life of one deployed contract, `contract`, under  *)
(* a stream of invocations.  Every invocation runs to completion before    *)
(* the next one starts (the host runs one invocation at a time), so every  *)
(* handler is one action.  A handler is written as an operator from the    *)
(* storage before the call to the storage after it, the value returned and *)
(* the events published, step by step in the order of the source.          *)
(***************************************************************************)
EXTENDS Integers, Sequences, FiniteSets, TLC

VARIABLES
    contract,   \* which contract this deployment is: "inventory" or "requests"
    workload,   \* the family of inputs the callers of this deployment draw from
    now,        \* env.ledger().timestamp()
    inv,        \* storage of the inventory contract
    req,        \* storage of the requests contract
    last,       \* the last invocation: operation, arguments, value
                \* returned, events published
    created,    \* number of creations that returned Ok so far
    rejected,   \* whether some creation was turned down with an error so far
    ticks,      \* number of times the ledger clock was moved forward
    probe       \* a RequestStatus value walked through the state machine

vars ==
    <<contract, workload, now, inv, req, last, created, rejected, ticks, probe>>

----------------------------------------------------------------------------
(* Bounds of the model *)

MaxUnits == 2          \* register_blood is not called once this many units exist
MaxRequests == 2       \* create_request is not called once this many requests exist
MaxClockSteps == 2     \* how many times the ledger clock is moved forward

----------------------------------------------------------------------------
(* Option<T>, storage maps, results *)

None == <<>>
Some(x) == <<x>>
IsSome(o) == Len(o) = 1
Unwrap(o) == o[1]

EmptyMap == <<>>
Has(m, k) == k \in DOMAIN m
Put(m, k, v) == [x \in (DOMAIN m) \cup {k} |-> IF x = k THEN v ELSE m[x]]
\* storage.get(&key).unwrap_or(Vec::new(env))
GetVec(m, k) == IF Has(m, k) THEN m[k] ELSE <<>>

\* Result<T, ContractError>: val carries a returned id (0 for ()), rec a
\* returned record
Ok(v) == [kind |-> "Ok", val |-> v, err |-> "-", rec |-> None]
OkRec(r) == [kind |-> "Ok", val |-> 0, err |-> "-", rec |-> Some(r)]
Err(e) == [kind |-> "Err", val |-> 0, err |-> e, rec |-> None]
\* require_auth() of an address that did not sign: the host aborts the call
AuthTrap == [kind |-> "Trap", val |-> 0, err |-> "Auth", rec |-> None]

\* a panic (expect() on a missing value): the host aborts the call
Panic == [kind |-> "Trap", val |-> 0, err |-> "Panic", rec |-> None]
\* a returned bool, as the val of the result
OkBool(b) == Ok(IF b THEN 1 ELSE 0)

Addresses == {"a1", "a2", "a3"}
BloodTypes == {"APositive", "ANegative", "BPositive", "BNegative",
               "ABPositive", "ABNegative", "OPositive", "ONegative"}

----------------------------------------------------------------------------
(* inventory/src/error.rs *)

INV_ContractError ==
    [AlreadyInitialized |-> 0, NotInitialized |-> 1, Unauthorized |-> 2,
     InvalidAmount |-> 10, InvalidAddress |-> 11, InvalidInput |-> 12,
     InvalidBloodType |-> 13, InvalidStatus |-> 14, InvalidTimestamp |-> 15,
     InvalidQuantity |-> 16, InvalidExpiration |-> 17,
     AlreadyExists |-> 20, NotFound |-> 21, Expired |-> 22,
     BloodUnitExpired |-> 23, DuplicateBloodUnit |-> 24,
     InsufficientBalance |-> 30, InsufficientPermissions |-> 31,
     NotAuthorizedBloodBank |-> 32,
     BloodUnitNotAvailable |-> 40, InvalidStatusTransition |-> 41]

----------------------------------------------------------------------------
(* inventory/src/storage.rs *)

MAX_EXPIRATION_DAYS == 42
SECONDS_PER_DAY == 86400

InvEmpty ==
    [Admin |-> None, BloodUnitCounter |-> None, BloodUnit |-> EmptyMap,
     BloodTypeIndex |-> EmptyMap, BankIndex |-> EmptyMap,
     StatusIndex |-> EmptyMap, DonorIndex |-> EmptyMap]

get_admin(st) == Unwrap(st.Admin)

set_admin(st, admin) == [st EXCEPT !.Admin = Some(admin)]

\* a slip: every bank is taken as authorized
is_authorized_bank_any(st, bank) == bank = bank

is_authorized_bank(st, bank) == bank = get_admin(st)

\* is_authorized_bank as a call: get_admin() panics when no admin is stored
is_authorized_bank_call(st, bank) ==
    IF IsSome(st.Admin) THEN OkBool(is_authorized_bank(st, bank)) ELSE Panic

\* a slip: the counter starts at 1
get_blood_unit_counter_from_one(st) ==
    IF IsSome(st.BloodUnitCounter) THEN Unwrap(st.BloodUnitCounter) ELSE 1

get_blood_unit_counter(st) ==
    IF IsSome(st.BloodUnitCounter) THEN Unwrap(st.BloodUnitCounter) ELSE 0

\* a slip: the counter is returned before it is advanced
increment_blood_unit_id_stale(st) ==
    LET current == get_blood_unit_counter(st)
        next_id == current + 1
    IN [st |-> [st EXCEPT !.BloodUnitCounter = Some(next_id)], id |-> current]

increment_blood_unit_id(st) ==
    LET current == get_blood_unit_counter(st)
        next_id == current + 1
    IN [st |-> [st EXCEPT !.BloodUnitCounter = Some(next_id)], id |-> next_id]

\* a slip: the unit is stored under the key of the counter's next value
set_blood_unit_wrong_key(st, blood_unit) ==
    [st EXCEPT !.BloodUnit = Put(@, blood_unit.id + 1, blood_unit)]

set_blood_unit(st, blood_unit) ==
    [st EXCEPT !.BloodUnit = Put(@, blood_unit.id, blood_unit)]

get_blood_unit(st, id) ==
    IF Has(st.BloodUnit, id) THEN Some(st.BloodUnit[id]) ELSE None

blood_unit_exists(st, id) == Has(st.BloodUnit, id)

\* a slip: the newest unit is put at the head of its blood type bucket
add_to_blood_type_index_prepend(st, blood_unit) ==
    LET key == blood_unit.blood_type
    IN [st EXCEPT !.BloodTypeIndex =
            Put(@, key, <<blood_unit.id>> \o GetVec(st.BloodTypeIndex, key))]

add_to_blood_type_index(st, blood_unit) ==
    LET key == blood_unit.blood_type
        units == GetVec(st.BloodTypeIndex, key)
    IN [st EXCEPT !.BloodTypeIndex = Put(@, key, Append(units, blood_unit.id))]

\* a slip: the new id is put at the front of the bucket
add_to_bank_index_prepend(st, blood_unit) ==
    LET key == blood_unit.bank_id
        units == GetVec(st.BankIndex, key)
    IN [st EXCEPT !.BankIndex = Put(@, key, <<blood_unit.id>> \o units)]

add_to_bank_index(st, blood_unit) ==
    LET key == blood_unit.bank_id
        units == GetVec(st.BankIndex, key)
    IN [st EXCEPT !.BankIndex = Put(@, key, Append(units, blood_unit.id))]

\* a slip: the unit is filed under Reserved whatever its status
add_to_status_index_reserved(st, blood_unit) ==
    [st EXCEPT !.StatusIndex =
        Put(@, "Reserved", Append(GetVec(st.StatusIndex, "Reserved"), blood_unit.id))]

add_to_status_index(st, blood_unit) ==
    LET key == blood_unit.status
        units == GetVec(st.StatusIndex, key)
    IN [st EXCEPT !.StatusIndex = Put(@, key, Append(units, blood_unit.id))]

\* a slip: an anonymous donation is filed under a placeholder donor
add_to_donor_index_sentinel(st, blood_unit) ==
    LET key == IF IsSome(blood_unit.donor_id)
               THEN Unwrap(blood_unit.donor_id) ELSE "anonymous"
        units == GetVec(st.DonorIndex, key)
    IN [st EXCEPT !.DonorIndex = Put(@, key, Append(units, blood_unit.id))]

add_to_donor_index(st, blood_unit) ==
    IF IsSome(blood_unit.donor_id)
    THEN LET key == Unwrap(blood_unit.donor_id)
             units == GetVec(st.DonorIndex, key)
         IN [st EXCEPT !.DonorIndex = Put(@, key, Append(units, blood_unit.id))]
    ELSE st

----------------------------------------------------------------------------
(* inventory/src/validation.rs and inventory/src/types.rs                   *)
(* (modelled from the documented contract of register_blood and the        *)
(* specification of the validator and of the BloodUnit invariant)          *)

MIN_QUANTITY_ML == 100
MAX_QUANTITY_ML == 600
MIN_SHELF_LIFE_DAYS == 1

BloodStatus == {"Available", "Reserved", "Issued", "Expired", "Discarded"}

\* quantity in [100, 600]; expiration strictly after the ledger time and at
\* most 42 days after it
\* a slip: the bounds of the quantity are exclusive
validate_blood_registration_exclusive(t, quantity_ml, expiration_timestamp) ==
    IF quantity_ml <= MIN_QUANTITY_ML \/ quantity_ml >= MAX_QUANTITY_ML
    THEN "InvalidQuantity"
    ELSE IF expiration_timestamp <= t THEN "InvalidExpiration"
    ELSE IF expiration_timestamp > t + MAX_EXPIRATION_DAYS * SECONDS_PER_DAY
    THEN "InvalidExpiration"
    ELSE "Ok"

validate_blood_registration(t, quantity_ml, expiration_timestamp) ==
    IF quantity_ml < MIN_QUANTITY_ML \/ quantity_ml > MAX_QUANTITY_ML
    THEN "InvalidQuantity"
    ELSE IF expiration_timestamp <= t THEN "InvalidExpiration"
    ELSE IF expiration_timestamp > t + MAX_EXPIRATION_DAYS * SECONDS_PER_DAY
    THEN "InvalidExpiration"
    ELSE "Ok"

\* the second, separate check: more than one day of shelf life must remain
validate_minimum_shelf_life(t, expiration_timestamp) ==
    IF expiration_timestamp <= t + MIN_SHELF_LIFE_DAYS * SECONDS_PER_DAY
    THEN "InvalidExpiration"
    ELSE "Ok"

\* BloodUnit::validate(current_time): the invariant of the entity
BloodUnit_validate(u, current_time) ==
    IF u.quantity_ml < MIN_QUANTITY_ML \/ u.quantity_ml > MAX_QUANTITY_ML
    THEN "InvalidQuantity"
    ELSE IF u.expiration_timestamp <= u.donation_timestamp
    THEN "InvalidExpiration"
    ELSE IF u.expiration_timestamp - u.donation_timestamp
                > MAX_EXPIRATION_DAYS * SECONDS_PER_DAY
    THEN "InvalidExpiration"
    ELSE "Ok"

----------------------------------------------------------------------------
(* inventory/src/events.rs *)

emit_blood_registered(t, blood_unit_id, bank_id, blood_type, quantity_ml, expiration_timestamp) ==
    [topic |-> "blood_registered", blood_unit_id |-> blood_unit_id,
     bank_id |-> bank_id, blood_type |-> blood_type,
     quantity_ml |-> quantity_ml,
     expiration_timestamp |-> expiration_timestamp, registered_at |-> t]

----------------------------------------------------------------------------
(* inventory/src/lib.rs: the handlers.  Each yields the storage after the  *)
(* call, the value returned and the events published.  `auth` says whether *)
(* the address whose require_auth() the handler calls signed the call.     *)

Out(st, res, ev) == [st |-> st, res |-> res, ev |-> ev]

\* a slip: the admin is stored without looking for an earlier one
INV_initialize_overwrite(st, auth, admin) ==
    IF ~auth THEN Out(st, AuthTrap, <<>>)
    ELSE Out(set_admin(st, admin), Ok(0), <<>>)

INV_initialize(st, auth, admin) ==
    IF ~auth THEN Out(st, AuthTrap, <<>>)
    ELSE IF IsSome(st.Admin)
    THEN Out(st, Err("AlreadyInitialized"), <<>>)
    ELSE Out(set_admin(st, admin), Ok(0), <<>>)

\* steps 5 to 10 of register_blood, entered once every input check passed
register_blood_commit(st, t, a) ==
    LET inc == increment_blood_unit_id(st)
        blood_unit_id == inc.id
        current_time == t
        blood_unit ==
            [id |-> blood_unit_id, blood_type |-> a.blood_type,
             quantity_ml |-> a.quantity_ml, bank_id |-> a.bank_id,
             donor_id |-> a.donor_id, donation_timestamp |-> current_time,
             expiration_timestamp |-> a.expiration_timestamp,
             status |-> "Available"]
        v == BloodUnit_validate(blood_unit, current_time)
        s1 == set_blood_unit(inc.st, blood_unit)
        s2 == add_to_blood_type_index(s1, blood_unit)
        s3 == add_to_bank_index(s2, blood_unit)
        s4 == add_to_status_index(s3, blood_unit)
        s5 == add_to_donor_index(s4, blood_unit)
    IN IF v # "Ok"
       THEN Out(inc.st, Err(v), <<>>)
       ELSE Out(s5, Ok(blood_unit_id),
                <<emit_blood_registered(t, blood_unit_id, a.bank_id,
                      a.blood_type, a.quantity_ml, a.expiration_timestamp)>>)

\* a slip: the identifier is allocated before the inputs are checked
register_blood_id_first(st, t, auth, a) ==
    IF ~auth THEN Out(st, AuthTrap, <<>>)
    ELSE IF ~IsSome(st.Admin)
    THEN Out(st, Err("NotInitialized"), <<>>)
    ELSE IF ~is_authorized_bank(st, a.bank_id)
    THEN Out(st, Err("NotAuthorizedBloodBank"), <<>>)
    ELSE LET inc == increment_blood_unit_id(st)
             v1 == validate_blood_registration(t, a.quantity_ml,
                                               a.expiration_timestamp)
             v2 == validate_minimum_shelf_life(t, a.expiration_timestamp)
         IN IF v1 # "Ok" THEN Out(inc.st, Err(v1), <<>>)
            ELSE IF v2 # "Ok" THEN Out(inc.st, Err(v2), <<>>)
            ELSE register_blood_commit(st, t, a)

\* a slip: the minimum shelf life check of step 4 is left out
register_blood_no_shelf_life(st, t, auth, a) ==
    IF ~auth THEN Out(st, AuthTrap, <<>>)
    ELSE IF ~IsSome(st.Admin)
    THEN Out(st, Err("NotInitialized"), <<>>)
    ELSE IF ~is_authorized_bank(st, a.bank_id)
    THEN Out(st, Err("NotAuthorizedBloodBank"), <<>>)
    ELSE LET v1 == validate_blood_registration(t, a.quantity_ml,
                                               a.expiration_timestamp)
         IN IF v1 # "Ok" THEN Out(st, Err(v1), <<>>)
            ELSE register_blood_commit(st, t, a)

\* a slip: the ID is allocated before the inputs are validated
register_blood_late_checks(st, t, auth, a) ==
    IF ~auth THEN Out(st, AuthTrap, <<>>)
    ELSE IF ~IsSome(st.Admin)
    THEN Out(st, Err("NotInitialized"), <<>>)
    ELSE IF ~is_authorized_bank(st, a.bank_id)
    THEN Out(st, Err("NotAuthorizedBloodBank"), <<>>)
    ELSE register_blood_commit(st, t, a)

register_blood(st, t, auth, a) ==
    IF ~auth THEN Out(st, AuthTrap, <<>>)
    ELSE IF ~IsSome(st.Admin)
    THEN Out(st, Err("NotInitialized"), <<>>)
    ELSE IF ~is_authorized_bank(st, a.bank_id)
    THEN Out(st, Err("NotAuthorizedBloodBank"), <<>>)
    ELSE LET v1 == validate_blood_registration(t, a.quantity_ml,
                                               a.expiration_timestamp)
             v2 == validate_minimum_shelf_life(t, a.expiration_timestamp)
         IN IF v1 # "Ok" THEN Out(st, Err(v1), <<>>)
            ELSE IF v2 # "Ok" THEN Out(st, Err(v2), <<>>)
            ELSE register_blood_commit(st, t, a)

\* a slip: the ID 0 is read as the first ID
INV_get_blood_unit_from_zero(st, blood_unit_id) ==
    LET u == get_blood_unit(st, IF blood_unit_id = 0 THEN 1 ELSE blood_unit_id)
    IN IF IsSome(u) THEN Out(st, OkRec(Unwrap(u)), <<>>)
       ELSE Out(st, Err("NotFound"), <<>>)

INV_get_blood_unit(st, blood_unit_id) ==
    LET u == get_blood_unit(st, blood_unit_id)
    IN IF IsSome(u) THEN Out(st, OkRec(Unwrap(u)), <<>>)
       ELSE Out(st, Err("NotFound"), <<>>)

----------------------------------------------------------------------------
(* requests/src/error.rs (the codes the contract's tests expect) *)

REQ_ContractError ==
    [AlreadyInitialized |-> 0, NotInitialized |-> 1, Unauthorized |-> 2,
     InvalidQuantity |-> 16, InvalidRequiredBy |-> 17,
     InvalidDeliveryAddress |-> 19, NotFound |-> 21, Expired |-> 22,
     NotAuthorizedHospital |-> 32, InvalidStatusTransition |-> 41,
     CannotCancelRequest |-> 42]

----------------------------------------------------------------------------
(* requests/src/types.rs (modelled from the specification of the request   *)
(* state machine and of the BloodRequest invariant)                        *)

RequestStatus ==
    {"Pending", "Approved", "InDelivery", "Completed", "Cancelled", "Expired"}

UrgencyLevel == {"Critical", "Urgent", "Normal"}

\* Pending -> Approved | Cancelled | Expired
\* Approved -> InDelivery | Cancelled | Expired
\* InDelivery -> Completed
\* a slip: a cancelled request may be approved again
can_transition_to_reopen(from, to) ==
    \/ from = "Pending" /\ to \in {"Approved", "Cancelled", "Expired"}
    \/ from = "Approved" /\ to \in {"InDelivery", "Cancelled", "Expired"}
    \/ from = "InDelivery" /\ to = "Completed"
    \/ from = "Cancelled" /\ to = "Approved"

can_transition_to(from, to) ==
    \/ from = "Pending" /\ to \in {"Approved", "Cancelled", "Expired"}
    \/ from = "Approved" /\ to \in {"InDelivery", "Cancelled", "Expired"}
    \/ from = "InDelivery" /\ to = "Completed"

can_cancel(status) == status \in {"Pending", "Approved"}

priority_weight(urgency) ==
    CASE urgency = "Critical" -> 3
      [] urgency = "Urgent" -> 2
      [] urgency = "Normal" -> 1

MIN_REQUEST_ML == 100
MAX_REQUEST_ML == 10000
MAX_REQUEST_DAYS == 30
SECONDS_PER_HOUR == 3600
CRITICAL_MIN_HOURS == 1
URGENT_MIN_HOURS == 4
NORMAL_MIN_HOURS == 24

\* BloodRequest::validate(current_time): the invariant of the entity
BloodRequest_validate(r, current_time) ==
    IF r.quantity_ml < MIN_REQUEST_ML \/ r.quantity_ml > MAX_REQUEST_ML
    THEN "InvalidQuantity"
    ELSE IF r.required_by <= r.created_at THEN "InvalidRequiredBy"
    ELSE IF r.required_by - r.created_at > MAX_REQUEST_DAYS * SECONDS_PER_DAY
    THEN "InvalidRequiredBy"
    ELSE IF r.delivery_address = "" THEN "InvalidDeliveryAddress"
    ELSE "Ok"

----------------------------------------------------------------------------
(* requests/src/validation.rs (modelled from the specification of the      *)
(* validator and the documented errors of create_request)                  *)

validate_request_creation(t, quantity_ml, required_by, delivery_address) ==
    IF quantity_ml < MIN_REQUEST_ML \/ quantity_ml > MAX_REQUEST_ML
    THEN "InvalidQuantity"
    ELSE IF required_by <= t THEN "InvalidRequiredBy"
    ELSE IF required_by - t > MAX_REQUEST_DAYS * SECONDS_PER_DAY
    THEN "InvalidRequiredBy"
    ELSE IF delivery_address = "" THEN "InvalidDeliveryAddress"
    ELSE "Ok"

min_lead_time(weight) ==
    CASE weight = 3 -> CRITICAL_MIN_HOURS * SECONDS_PER_HOUR
      [] weight = 2 -> URGENT_MIN_HOURS * SECONDS_PER_HOUR
      [] OTHER -> NORMAL_MIN_HOURS * SECONDS_PER_HOUR

validate_urgency_time_window(t, required_by, weight) ==
    IF required_by <= t THEN "InvalidRequiredBy"
    ELSE IF required_by - t < min_lead_time(weight) THEN "InvalidRequiredBy"
    ELSE IF required_by - t > MAX_REQUEST_DAYS * SECONDS_PER_DAY
    THEN "InvalidRequiredBy"
    ELSE "Ok"

\* the deadline must still be in the future
validate_not_expired(t, required_by) ==
    IF t >= required_by THEN "Expired" ELSE "Ok"

----------------------------------------------------------------------------
(* requests/src/storage.rs (modelled on inventory/src/storage.rs and the   *)
(* specification of the record store and the index maintainer)             *)

ReqEmpty ==
    [Admin |-> None, RequestCounter |-> None, BloodRequest |-> EmptyMap,
     AuthorizedHospital |-> {},
     HospitalIndex |-> EmptyMap, BloodTypeIndex |-> EmptyMap,
     StatusIndex |-> EmptyMap, UrgencyIndex |-> EmptyMap]

is_initialized(st) == IsSome(st.Admin)

REQ_get_admin(st) == Unwrap(st.Admin)

REQ_set_admin(st, admin) == [st EXCEPT !.Admin = Some(admin)]

authorize_hospital(st, hospital) ==
    [st EXCEPT !.AuthorizedHospital = @ \cup {hospital}]

revoke_hospital(st, hospital) ==
    [st EXCEPT !.AuthorizedHospital = @ \ {hospital}]

\* the admin is always an authorized hospital
is_authorized_hospital(st, hospital) ==
    \/ IsSome(st.Admin) /\ hospital = REQ_get_admin(st)
    \/ hospital \in st.AuthorizedHospital

get_request_counter(st) ==
    IF IsSome(st.RequestCounter) THEN Unwrap(st.RequestCounter) ELSE 0

increment_request_id(st) ==
    LET current == get_request_counter(st)
        next_id == current + 1
    IN [st |-> [st EXCEPT !.RequestCounter = Some(next_id)], id |-> next_id]

set_blood_request(st, request) ==
    [st EXCEPT !.BloodRequest = Put(@, request.id, request)]

get_blood_request(st, id) ==
    IF Has(st.BloodRequest, id) THEN Some(st.BloodRequest[id]) ELSE None

add_to_hospital_index(st, request) ==
    LET key == request.hospital_id
    IN [st EXCEPT !.HospitalIndex =
            Put(@, key, Append(GetVec(st.HospitalIndex, key), request.id))]

REQ_add_to_blood_type_index(st, request) ==
    LET key == request.blood_type
    IN [st EXCEPT !.BloodTypeIndex =
            Put(@, key, Append(GetVec(st.BloodTypeIndex, key), request.id))]

REQ_add_to_status_index(st, request) ==
    LET key == request.status
    IN [st EXCEPT !.StatusIndex =
            Put(@, key, Append(GetVec(st.StatusIndex, key), request.id))]

add_to_urgency_index(st, request) ==
    LET key == request.urgency
    IN [st EXCEPT !.UrgencyIndex =
            Put(@, key, Append(GetVec(st.UrgencyIndex, key), request.id))]

\* the bucket without `id`, the other ids in their order
RECURSIVE RemoveId(_, _)
RemoveId(ids, id) ==
    IF ids = <<>> THEN <<>>
    ELSE IF Head(ids) = id THEN RemoveId(Tail(ids), id)
    ELSE <<Head(ids)>> \o RemoveId(Tail(ids), id)

\* move the id from the bucket of the old status to the end of the new one
update_status_index(st, request_id, old_status, new_status) ==
    LET old_ids == RemoveId(GetVec(st.StatusIndex, old_status), request_id)
        s1 == [st EXCEPT !.StatusIndex = Put(@, old_status, old_ids)]
        new_ids == Append(GetVec(s1.StatusIndex, new_status), request_id)
    IN [s1 EXCEPT !.StatusIndex = Put(@, new_status, new_ids)]

get_requests_by_hospital(st, hospital) == GetVec(st.HospitalIndex, hospital)
get_requests_by_status(st, status) == GetVec(st.StatusIndex, status)
get_requests_by_blood_type(st, bt) == GetVec(st.BloodTypeIndex, bt)
get_requests_by_urgency(st, urgency) == GetVec(st.UrgencyIndex, urgency)

----------------------------------------------------------------------------
(* requests/src/events.rs *)

emit_request_created(t, request_id, hospital_id, blood_type, quantity_ml, urgency, required_by) ==
    [topic |-> "request_created", request_id |-> request_id,
     hospital_id |-> hospital_id, blood_type |-> blood_type,
     quantity_ml |-> quantity_ml, urgency |-> urgency,
     required_by |-> required_by, created_at |-> t]

emit_status_changed(t, request_id, old_status, new_status) ==
    [topic |-> "status_changed", request_id |-> request_id,
     old_status |-> old_status, new_status |-> new_status, changed_at |-> t]

emit_request_approved(t, request_id) ==
    emit_status_changed(t, request_id, "Pending", "Approved")

\* a slip: the cancellation is announced as one of a Pending request
emit_request_cancelled_from_pending(t, request_id, previous_status) ==
    emit_status_changed(t, request_id, "Pending", "Cancelled")

emit_request_cancelled(t, request_id, previous_status) ==
    emit_status_changed(t, request_id, previous_status, "Cancelled")

----------------------------------------------------------------------------
(* requests/src/lib.rs: the handlers *)

REQ_initialize(st, auth, admin) ==
    IF ~auth THEN Out(st, AuthTrap, <<>>)
    ELSE IF is_initialized(st)
    THEN Out(st, Err("AlreadyInitialized"), <<>>)
    ELSE Out(REQ_set_admin(st, admin), Ok(0), <<>>)

\* a slip: the allow-list is written without looking for an admin
REQ_authorize_hospital_no_init(st, auth, hospital) ==
    IF ~auth THEN Out(st, AuthTrap, <<>>)
    ELSE Out(authorize_hospital(st, hospital), Ok(0), <<>>)

REQ_authorize_hospital(st, auth, hospital) ==
    IF ~is_initialized(st) THEN Out(st, Err("NotInitialized"), <<>>)
    ELSE IF ~auth THEN Out(st, AuthTrap, <<>>)
    ELSE Out(authorize_hospital(st, hospital), Ok(0), <<>>)

\* a slip: the allow-list is left as it is
REQ_revoke_hospital_noop(st, auth, hospital) ==
    IF ~is_initialized(st) THEN Out(st, Err("NotInitialized"), <<>>)
    ELSE IF ~auth THEN Out(st, AuthTrap, <<>>)
    ELSE Out(st, Ok(0), <<>>)

REQ_revoke_hospital(st, auth, hospital) ==
    IF ~is_initialized(st) THEN Out(st, Err("NotInitialized"), <<>>)
    ELSE IF ~auth THEN Out(st, AuthTrap, <<>>)
    ELSE Out(revoke_hospital(st, hospital), Ok(0), <<>>)

\* steps 6 to 11 of create_request, entered once every input check passed
create_request_commit(st, t, a) ==
    LET inc == increment_request_id(st)
        request_id == inc.id
        current_time == t
        request ==
            [id |-> request_id, hospital_id |-> a.hospital_id,
             blood_type |-> a.blood_type, quantity_ml |-> a.quantity_ml,
             urgency |-> a.urgency, status |-> "Pending",
             created_at |-> current_time, required_by |-> a.required_by,
             fulfilled_at |-> None, assigned_units |-> <<>>,
             delivery_address |-> a.delivery_address]
        v == BloodRequest_validate(request, current_time)
        s1 == set_blood_request(inc.st, request)
        s2 == add_to_hospital_index(s1, request)
        s3 == REQ_add_to_blood_type_index(s2, request)
        s4 == REQ_add_to_status_index(s3, request)
        s5 == add_to_urgency_index(s4, request)
    IN IF v # "Ok"
       THEN Out(inc.st, Err(v), <<>>)
       ELSE Out(s5, Ok(request_id),
                <<emit_request_created(t, request_id, a.hospital_id,
                      a.blood_type, a.quantity_ml, a.urgency, a.required_by)>>)

\* a slip: step 5, the urgency-specific time window, is left out
create_request_no_window(st, t, auth, a) ==
    IF ~auth THEN Out(st, AuthTrap, <<>>)
    ELSE IF ~is_initialized(st)
    THEN Out(st, Err("NotInitialized"), <<>>)
    ELSE IF ~is_authorized_hospital(st, a.hospital_id)
    THEN Out(st, Err("NotAuthorizedHospital"), <<>>)
    ELSE LET v1 == validate_request_creation(t, a.quantity_ml, a.required_by,
                                             a.delivery_address)
         IN IF v1 # "Ok" THEN Out(st, Err(v1), <<>>)
            ELSE create_request_commit(st, t, a)

\* a slip: the inputs are validated before the hospital is looked up
create_request_validates_first(st, t, auth, a) ==
    IF ~auth THEN Out(st, AuthTrap, <<>>)
    ELSE IF ~is_initialized(st)
    THEN Out(st, Err("NotInitialized"), <<>>)
    ELSE LET v1 == validate_request_creation(t, a.quantity_ml, a.required_by,
                                             a.delivery_address)
             v2 == validate_urgency_time_window(t, a.required_by,
                                                priority_weight(a.urgency))
         IN IF v1 # "Ok" THEN Out(st, Err(v1), <<>>)
            ELSE IF v2 # "Ok" THEN Out(st, Err(v2), <<>>)
            ELSE IF ~is_authorized_hospital(st, a.hospital_id)
            THEN Out(st, Err("NotAuthorizedHospital"), <<>>)
            ELSE create_request_commit(st, t, a)

create_request(st, t, auth, a) ==
    IF ~auth THEN Out(st, AuthTrap, <<>>)
    ELSE IF ~is_initialized(st)
    THEN Out(st, Err("NotInitialized"), <<>>)
    ELSE IF ~is_authorized_hospital(st, a.hospital_id)
    THEN Out(st, Err("NotAuthorizedHospital"), <<>>)
    ELSE LET v1 == validate_request_creation(t, a.quantity_ml, a.required_by,
                                             a.delivery_address)
             v2 == validate_urgency_time_window(t, a.required_by,
                                                priority_weight(a.urgency))
         IN IF v1 # "Ok" THEN Out(st, Err(v1), <<>>)
            ELSE IF v2 # "Ok" THEN Out(st, Err(v2), <<>>)
            ELSE create_request_commit(st, t, a)

REQ_get_request(st, request_id) ==
    LET r == get_blood_request(st, request_id)
    IN IF IsSome(r) THEN Out(st, OkRec(Unwrap(r)), <<>>)
       ELSE Out(st, Err("NotFound"), <<>>)

\* a slip: the query looks at the allow-list only
REQ_is_hospital_authorized_list_only(st, panics, hospital) ==
    IF ~is_initialized(st) /\ panics THEN Out(st, Panic, <<>>)
    ELSE Out(st, OkBool(hospital \in st.AuthorizedHospital), <<>>)

\* the public query; its result type is bool, so before initialize it can
\* only answer false or abort, whichever storage::is_authorized_hospital does
\* on a missing admin (panics)
REQ_is_hospital_authorized(st, panics, hospital) ==
    IF ~is_initialized(st) /\ panics THEN Out(st, Panic, <<>>)
    ELSE Out(st, OkBool(is_authorized_hospital(st, hospital)), <<>>)

\* a slip: the deadline of the request is not looked at
approve_request_no_expiry(st, t, auth, request_id) ==
    IF ~is_initialized(st) THEN Out(st, Err("NotInitialized"), <<>>)
    ELSE IF ~auth THEN Out(st, AuthTrap, <<>>)
    ELSE IF ~IsSome(get_blood_request(st, request_id))
    THEN Out(st, Err("NotFound"), <<>>)
    ELSE LET request == Unwrap(get_blood_request(st, request_id))
             old_status == request.status
             approved == [request EXCEPT !.status = "Approved"]
             s1 == set_blood_request(st, approved)
             s2 == update_status_index(s1, request_id, old_status, "Approved")
         IN IF ~can_transition_to(request.status, "Approved")
            THEN Out(st, Err("InvalidStatusTransition"), <<>>)
            ELSE Out(s2, Ok(0), <<emit_request_approved(t, request_id)>>)

\* a slip: the deadline is checked before the legality of the transition
approve_request_expiry_first(st, t, auth, request_id) ==
    IF ~is_initialized(st) THEN Out(st, Err("NotInitialized"), <<>>)
    ELSE IF ~auth THEN Out(st, AuthTrap, <<>>)
    ELSE IF ~IsSome(get_blood_request(st, request_id))
    THEN Out(st, Err("NotFound"), <<>>)
    ELSE LET request == Unwrap(get_blood_request(st, request_id))
             v == validate_not_expired(t, request.required_by)
             old_status == request.status
             approved == [request EXCEPT !.status = "Approved"]
             s1 == set_blood_request(st, approved)
             s2 == update_status_index(s1, request_id, old_status, "Approved")
         IN IF v # "Ok" THEN Out(st, Err(v), <<>>)
            ELSE IF ~can_transition_to(request.status, "Approved")
            THEN Out(st, Err("InvalidStatusTransition"), <<>>)
            ELSE Out(s2, Ok(0), <<emit_request_approved(t, request_id)>>)

\* a slip: the status index is not updated on approval
approve_request_no_index(st, t, auth, request_id) ==
    IF ~is_initialized(st) THEN Out(st, Err("NotInitialized"), <<>>)
    ELSE IF ~auth THEN Out(st, AuthTrap, <<>>)
    ELSE IF ~IsSome(get_blood_request(st, request_id))
    THEN Out(st, Err("NotFound"), <<>>)
    ELSE LET request == Unwrap(get_blood_request(st, request_id))
             v == validate_not_expired(t, request.required_by)
             approved == [request EXCEPT !.status = "Approved"]
             s1 == set_blood_request(st, approved)
         IN IF ~can_transition_to(request.status, "Approved")
            THEN Out(st, Err("InvalidStatusTransition"), <<>>)
            ELSE IF v # "Ok" THEN Out(st, Err(v), <<>>)
            ELSE Out(s1, Ok(0), <<emit_request_approved(t, request_id)>>)

\* a slip: approval stamps the request as fulfilled
approve_request_stamps(st, t, auth, request_id) ==
    IF ~is_initialized(st) THEN Out(st, Err("NotInitialized"), <<>>)
    ELSE IF ~auth THEN Out(st, AuthTrap, <<>>)
    ELSE IF ~IsSome(get_blood_request(st, request_id))
    THEN Out(st, Err("NotFound"), <<>>)
    ELSE LET request == Unwrap(get_blood_request(st, request_id))
             v == validate_not_expired(t, request.required_by)
             old_status == request.status
             approved == [request EXCEPT !.status = "Approved",
                                         !.fulfilled_at = Some(t)]
             s1 == set_blood_request(st, approved)
             s2 == update_status_index(s1, request_id, old_status, "Approved")
         IN IF ~can_transition_to(request.status, "Approved")
            THEN Out(st, Err("InvalidStatusTransition"), <<>>)
            ELSE IF v # "Ok" THEN Out(st, Err(v), <<>>)
            ELSE Out(s2, Ok(0), <<emit_request_approved(t, request_id)>>)

\* a slip: the old and the new status are handed to the index swapped
approve_request_swapped(st, t, auth, request_id) ==
    IF ~is_initialized(st) THEN Out(st, Err("NotInitialized"), <<>>)
    ELSE IF ~auth THEN Out(st, AuthTrap, <<>>)
    ELSE IF ~IsSome(get_blood_request(st, request_id))
    THEN Out(st, Err("NotFound"), <<>>)
    ELSE LET request == Unwrap(get_blood_request(st, request_id))
             v == validate_not_expired(t, request.required_by)
             old_status == request.status
             approved == [request EXCEPT !.status = "Approved"]
             s1 == set_blood_request(st, approved)
             s2 == update_status_index(s1, request_id, "Approved", old_status)
         IN IF ~can_transition_to(request.status, "Approved")
            THEN Out(st, Err("InvalidStatusTransition"), <<>>)
            ELSE IF v # "Ok" THEN Out(st, Err(v), <<>>)
            ELSE Out(s2, Ok(0), <<emit_request_approved(t, request_id)>>)

\* a slip: a request found past its deadline is filed as Expired
approve_request_marks_expired(st, t, auth, request_id) ==
    IF ~is_initialized(st) THEN Out(st, Err("NotInitialized"), <<>>)
    ELSE IF ~auth THEN Out(st, AuthTrap, <<>>)
    ELSE IF ~IsSome(get_blood_request(st, request_id))
    THEN Out(st, Err("NotFound"), <<>>)
    ELSE LET request == Unwrap(get_blood_request(st, request_id))
             v == validate_not_expired(t, request.required_by)
             old_status == request.status
             new_status == IF v # "Ok" THEN "Expired" ELSE "Approved"
             changed == [request EXCEPT !.status = new_status]
             s1 == set_blood_request(st, changed)
             s2 == update_status_index(s1, request_id, old_status, new_status)
         IN IF ~can_transition_to(request.status, new_status)
            THEN Out(st, Err("InvalidStatusTransition"), <<>>)
            ELSE Out(s2, Ok(0),
                     <<emit_status_changed(t, request_id, old_status, new_status)>>)

\* a slip: the status of the request is not looked at
approve_request_any_status(st, t, auth, request_id) ==
    IF ~is_initialized(st) THEN Out(st, Err("NotInitialized"), <<>>)
    ELSE IF ~auth THEN Out(st, AuthTrap, <<>>)
    ELSE IF ~IsSome(get_blood_request(st, request_id))
    THEN Out(st, Err("NotFound"), <<>>)
    ELSE LET request == Unwrap(get_blood_request(st, request_id))
             v == validate_not_expired(t, request.required_by)
             old_status == request.status
             approved == [request EXCEPT !.status = "Approved"]
             s1 == set_blood_request(st, approved)
             s2 == update_status_index(s1, request_id, old_status, "Approved")
         IN IF v # "Ok" THEN Out(st, Err(v), <<>>)
            ELSE Out(s2, Ok(0), <<emit_request_approved(t, request_id)>>)

\* a slip: the deadline is compared with the time of creation
approve_request_created_at(st, t, auth, request_id) ==
    IF ~is_initialized(st) THEN Out(st, Err("NotInitialized"), <<>>)
    ELSE IF ~auth THEN Out(st, AuthTrap, <<>>)
    ELSE IF ~IsSome(get_blood_request(st, request_id))
    THEN Out(st, Err("NotFound"), <<>>)
    ELSE LET request == Unwrap(get_blood_request(st, request_id))
             v == validate_not_expired(request.created_at, request.required_by)
             old_status == request.status
             approved == [request EXCEPT !.status = "Approved"]
             s1 == set_blood_request(st, approved)
             s2 == update_status_index(s1, request_id, old_status, "Approved")
         IN IF ~can_transition_to(request.status, "Approved")
            THEN Out(st, Err("InvalidStatusTransition"), <<>>)
            ELSE IF v # "Ok" THEN Out(st, Err(v), <<>>)
            ELSE Out(s2, Ok(0), <<emit_request_approved(t, request_id)>>)

approve_request(st, t, auth, request_id) ==
    IF ~is_initialized(st) THEN Out(st, Err("NotInitialized"), <<>>)
    ELSE IF ~auth THEN Out(st, AuthTrap, <<>>)
    ELSE IF ~IsSome(get_blood_request(st, request_id))
    THEN Out(st, Err("NotFound"), <<>>)
    ELSE LET request == Unwrap(get_blood_request(st, request_id))
             v == validate_not_expired(t, request.required_by)
             old_status == request.status
             approved == [request EXCEPT !.status = "Approved"]
             s1 == set_blood_request(st, approved)
             s2 == update_status_index(s1, request_id, old_status, "Approved")
         IN IF ~can_transition_to(request.status, "Approved")
            THEN Out(st, Err("InvalidStatusTransition"), <<>>)
            ELSE IF v # "Ok" THEN Out(st, Err(v), <<>>)
            ELSE Out(s2, Ok(0), <<emit_request_approved(t, request_id)>>)

\* a slip: cancellation refuses a request whose deadline has passed
cancel_request_deadline(st, t, auth, request_id, caller) ==
    IF ~auth THEN Out(st, AuthTrap, <<>>)
    ELSE IF ~is_initialized(st) THEN Out(st, Err("NotInitialized"), <<>>)
    ELSE IF ~IsSome(get_blood_request(st, request_id))
    THEN Out(st, Err("NotFound"), <<>>)
    ELSE LET request == Unwrap(get_blood_request(st, request_id))
             admin == REQ_get_admin(st)
             v == validate_not_expired(t, request.required_by)
             old_status == request.status
             cancelled == [request EXCEPT !.status = "Cancelled"]
             s1 == set_blood_request(st, cancelled)
             s2 == update_status_index(s1, request_id, old_status, "Cancelled")
         IN IF caller # request.hospital_id /\ caller # admin
            THEN Out(st, Err("Unauthorized"), <<>>)
            ELSE IF ~can_cancel(request.status)
            THEN Out(st, Err("CannotCancelRequest"), <<>>)
            ELSE IF v # "Ok" THEN Out(st, Err(v), <<>>)
            ELSE Out(s2, Ok(0),
                     <<emit_request_cancelled(t, request_id, old_status)>>)

\* a slip: the caller is not compared with the hospital and the admin
cancel_request_any_caller(st, t, auth, request_id, caller) ==
    IF ~auth THEN Out(st, AuthTrap, <<>>)
    ELSE IF ~is_initialized(st) THEN Out(st, Err("NotInitialized"), <<>>)
    ELSE IF ~IsSome(get_blood_request(st, request_id))
    THEN Out(st, Err("NotFound"), <<>>)
    ELSE LET request == Unwrap(get_blood_request(st, request_id))
             old_status == request.status
             cancelled == [request EXCEPT !.status = "Cancelled"]
             s1 == set_blood_request(st, cancelled)
             s2 == update_status_index(s1, request_id, old_status, "Cancelled")
         IN IF ~can_cancel(request.status)
            THEN Out(st, Err("CannotCancelRequest"), <<>>)
            ELSE Out(s2, Ok(0),
                     <<emit_request_cancelled(t, request_id, old_status)>>)

\* a slip: the can_cancel check is left out
cancel_request_unchecked(st, t, auth, request_id, caller) ==
    IF ~auth THEN Out(st, AuthTrap, <<>>)
    ELSE IF ~is_initialized(st) THEN Out(st, Err("NotInitialized"), <<>>)
    ELSE IF ~IsSome(get_blood_request(st, request_id))
    THEN Out(st, Err("NotFound"), <<>>)
    ELSE LET request == Unwrap(get_blood_request(st, request_id))
             admin == REQ_get_admin(st)
             old_status == request.status
             cancelled == [request EXCEPT !.status = "Cancelled"]
             s1 == set_blood_request(st, cancelled)
             s2 == update_status_index(s1, request_id, old_status, "Cancelled")
         IN IF caller # request.hospital_id /\ caller # admin
            THEN Out(st, Err("Unauthorized"), <<>>)
            ELSE Out(s2, Ok(0),
                     <<emit_request_cancelled(t, request_id, old_status)>>)

\* a slip: the cancellation is stored but never announced
cancel_request_silent(st, t, auth, request_id, caller) ==
    IF ~auth THEN Out(st, AuthTrap, <<>>)
    ELSE IF ~is_initialized(st) THEN Out(st, Err("NotInitialized"), <<>>)
    ELSE IF ~IsSome(get_blood_request(st, request_id))
    THEN Out(st, Err("NotFound"), <<>>)
    ELSE LET request == Unwrap(get_blood_request(st, request_id))
             admin == REQ_get_admin(st)
             old_status == request.status
             cancelled == [request EXCEPT !.status = "Cancelled"]
             s1 == set_blood_request(st, cancelled)
             s2 == update_status_index(s1, request_id, old_status, "Cancelled")
         IN IF caller # request.hospital_id /\ caller # admin
            THEN Out(st, Err("Unauthorized"), <<>>)
            ELSE IF ~can_cancel(request.status)
            THEN Out(st, Err("CannotCancelRequest"), <<>>)
            ELSE Out(s2, Ok(0), <<>>)

\* a slip: the caller must also be authorized at the time of the call
cancel_request_needs_allow_list(st, t, auth, request_id, caller) ==
    IF ~auth THEN Out(st, AuthTrap, <<>>)
    ELSE IF ~is_initialized(st) THEN Out(st, Err("NotInitialized"), <<>>)
    ELSE IF ~IsSome(get_blood_request(st, request_id))
    THEN Out(st, Err("NotFound"), <<>>)
    ELSE LET request == Unwrap(get_blood_request(st, request_id))
             admin == REQ_get_admin(st)
             old_status == request.status
             cancelled == [request EXCEPT !.status = "Cancelled"]
             s1 == set_blood_request(st, cancelled)
             s2 == update_status_index(s1, request_id, old_status, "Cancelled")
         IN IF (caller # request.hospital_id /\ caller # admin)
               \/ ~is_authorized_hospital(st, caller)
            THEN Out(st, Err("Unauthorized"), <<>>)
            ELSE IF ~can_cancel(request.status)
            THEN Out(st, Err("CannotCancelRequest"), <<>>)
            ELSE Out(s2, Ok(0),
                     <<emit_request_cancelled(t, request_id, old_status)>>)

\* a slip: the status is looked at before the caller
cancel_request_status_first(st, t, auth, request_id, caller) ==
    IF ~auth THEN Out(st, AuthTrap, <<>>)
    ELSE IF ~is_initialized(st) THEN Out(st, Err("NotInitialized"), <<>>)
    ELSE IF ~IsSome(get_blood_request(st, request_id))
    THEN Out(st, Err("NotFound"), <<>>)
    ELSE LET request == Unwrap(get_blood_request(st, request_id))
             admin == REQ_get_admin(st)
             old_status == request.status
             cancelled == [request EXCEPT !.status = "Cancelled"]
             s1 == set_blood_request(st, cancelled)
             s2 == update_status_index(s1, request_id, old_status, "Cancelled")
         IN IF ~can_cancel(request.status)
            THEN Out(st, Err("CannotCancelRequest"), <<>>)
            ELSE IF caller # request.hospital_id /\ caller # admin
            THEN Out(st, Err("Unauthorized"), <<>>)
            ELSE Out(s2, Ok(0),
                     <<emit_request_cancelled(t, request_id, old_status)>>)

cancel_request(st, t, auth, request_id, caller) ==
    IF ~auth THEN Out(st, AuthTrap, <<>>)
    ELSE IF ~is_initialized(st) THEN Out(st, Err("NotInitialized"), <<>>)
    ELSE IF ~IsSome(get_blood_request(st, request_id))
    THEN Out(st, Err("NotFound"), <<>>)
    ELSE LET request == Unwrap(get_blood_request(st, request_id))
             admin == REQ_get_admin(st)
             old_status == request.status
             cancelled == [request EXCEPT !.status = "Cancelled"]
             s1 == set_blood_request(st, cancelled)
             s2 == update_status_index(s1, request_id, old_status, "Cancelled")
         IN IF caller # request.hospital_id /\ caller # admin
            THEN Out(st, Err("Unauthorized"), <<>>)
            ELSE IF ~can_cancel(request.status)
            THEN Out(st, Err("CannotCancelRequest"), <<>>)
            ELSE Out(s2, Ok(0),
                     <<emit_request_cancelled(t, request_id, old_status)>>)

----------------------------------------------------------------------------
(* The callers.  A workload fixes the sets the arguments of the calls are  *)
(* drawn from: one workload sweeps one argument across its boundaries and  *)
(* keeps the others at a valid value, the "index" and "mixed" workloads    *)
(* vary the keys and combine valid with invalid values.                    *)

StartTime == 1000
Day == SECONDS_PER_DAY
Hour == SECONDS_PER_HOUR
Street == "123 Hospital Street"

BaseInputs ==
    [admins |-> {"a1"}, owners |-> {"a1"}, types |-> {"APositive"},
     quantities |-> {450}, offsets |-> {7 * Day}, donors |-> {None},
     urgencies |-> {"Normal"}, addresses |-> {Street},
     callers |-> {}, ids |-> {}, clock |-> {}]

\* lead times at and around the limits of every urgency level
WindowOffsets ==
    {0, 1800, Hour - 1, Hour, 2 * Hour, 4 * Hour - 1, 4 * Hour,
     6 * Hour, Day - 1, Day, 2 * Day, 30 * Day, 30 * Day + 1}

Workloads ==
    [inv_quantity |->
        [BaseInputs EXCEPT !.quantities = {50, 99, 100, 450, 600, 601, 700}],
     inv_expiration |->
        [BaseInputs EXCEPT !.offsets =
            {0 - 100, 0, 43200, Day, Day + 1, 30 * Day, 42 * Day,
             42 * Day + 1, 60 * Day}],
     inv_index |->
        [BaseInputs EXCEPT !.owners = {"a1", "a2"},
                           !.types = {"APositive", "ONegative"},
                           !.donors = {None, Some("a2"), Some("a3")},
                           !.ids = {1, 2}],
     inv_mixed |->
        [BaseInputs EXCEPT !.admins = {"a1", "a2"}, !.owners = {"a1", "a2"},
                           !.quantities = {50, 450},
                           !.offsets = {0, 7 * Day},
                           !.ids = {0, 1, 2, 3}, !.clock = {1, Day}],
     req_quantity |->
        [BaseInputs EXCEPT !.quantities =
            {50, 99, 100, 900, 10000, 10001, 20000}],
     req_critical |->
        [BaseInputs EXCEPT !.urgencies = {"Critical"},
                           !.offsets = WindowOffsets],
     req_urgent |->
        [BaseInputs EXCEPT !.urgencies = {"Urgent"},
                           !.offsets = WindowOffsets],
     req_normal |->
        [BaseInputs EXCEPT !.urgencies = {"Normal"},
                           !.offsets = WindowOffsets],
     req_urgency |->
        [BaseInputs EXCEPT !.urgencies = UrgencyLevel,
                           !.offsets = {2 * Day}],
     req_index |->
        [BaseInputs EXCEPT !.owners = {"a1", "a2"},
                           !.types = {"APositive", "ONegative"},
                           !.callers = {"a1"}, !.ids = {1}],
     req_lifecycle |->
        [BaseInputs EXCEPT !.owners = {"a2"}, !.offsets = {Day},
                           !.callers = {"a1", "a2", "a3"},
                           !.ids = {1, 2}, !.clock = {Day}],
     req_mixed |->
        [BaseInputs EXCEPT !.admins = {"a1", "a2"},
                           !.owners = {"a1", "a2"},
                           !.quantities = {50, 450},
                           !.offsets = {1800, 7 * Day},
                           !.addresses = {"", Street},
                           !.callers = {"a1", "a3"},
                           !.ids = {0, 1}]]

ContractOf(w) ==
    IF w \in {"inv_quantity", "inv_expiration", "inv_index", "inv_mixed"}
    THEN "inventory" ELSE "requests"

In == Workloads[workload]

----------------------------------------------------------------------------
(* The state after deployment, and the invocations *)

NoCall == [op |-> "none", args |-> <<>>, res |-> Ok(0), ev |-> <<>>, at |-> 0]

\* what the caller of an invocation observes; an invocation the host aborted
\* at require_auth() never reached the contract's logic
Observed(op, args, out) ==
    [op |-> op, args |-> IF out.res.kind = "Trap" THEN <<>> ELSE args,
     res |-> out.res, ev |-> out.ev, at |-> now]

NoProbe == [op |-> "none", from |-> "-", to |-> "-", answer |-> FALSE,
            trail |-> <<>>]

Deployed ==
    /\ contract = ContractOf(workload)
    /\ now = StartTime
    /\ inv = InvEmpty
    /\ req = ReqEmpty
    /\ last = NoCall
    /\ created = 0
    /\ rejected = FALSE
    /\ ticks = 0

Init ==
    /\ workload \in DOMAIN Workloads
    /\ Deployed
    /\ probe = NoProbe

\* the host applies what a handler of the inventory contract yields
InvApply(op, args, out) ==
    /\ inv' = out.st
    /\ last' = Observed(op, args, out)
    /\ UNCHANGED <<contract, workload, now, req, ticks, probe>>

\* the host applies what a handler of the requests contract yields
ReqApply(op, args, out) ==
    /\ req' = out.st
    /\ last' = Observed(op, args, out)
    /\ UNCHANGED <<contract, workload, now, inv, ticks, probe>>

InvInitialize ==
    /\ contract = "inventory"
    /\ \E auth \in BOOLEAN, admin \in In.admins :
         /\ InvApply("initialize", [admin |-> admin],
                     INV_initialize(inv, auth, admin))
         /\ UNCHANGED <<created, rejected>>

RegisterBlood ==
    /\ contract = "inventory"
    /\ get_blood_unit_counter(inv) < MaxUnits
    /\ \E auth \in BOOLEAN, bank \in In.owners, bt \in In.types,
          q \in In.quantities, off \in In.offsets, donor \in In.donors :
         LET a == [bank_id |-> bank, blood_type |-> bt, quantity_ml |-> q,
                   expiration_timestamp |-> now + off, donor_id |-> donor]
             out == register_blood(inv, now, auth, a)
         IN /\ InvApply("register_blood", a, out)
            /\ created' = IF out.res.kind = "Ok" THEN created + 1 ELSE created
            /\ rejected' = (rejected \/ out.res.kind = "Err")

GetBloodUnit ==
    /\ contract = "inventory"
    /\ \E id \in In.ids :
         /\ InvApply("get_blood_unit", [blood_unit_id |-> id],
                     INV_get_blood_unit(inv, id))
         /\ UNCHANGED <<created, rejected>>

ReqInitialize ==
    /\ contract = "requests"
    /\ \E auth \in BOOLEAN, admin \in In.admins :
         /\ ReqApply("initialize", [admin |-> admin],
                     REQ_initialize(req, auth, admin))
         /\ UNCHANGED <<created, rejected>>

AuthorizeHospital ==
    /\ contract = "requests"
    /\ \E auth \in BOOLEAN, h \in In.owners :
         /\ ReqApply("authorize_hospital", [hospital |-> h],
                     REQ_authorize_hospital(req, auth, h))
         /\ UNCHANGED <<created, rejected>>

RevokeHospital ==
    /\ contract = "requests"
    /\ \E auth \in BOOLEAN, h \in In.owners :
         /\ ReqApply("revoke_hospital", [hospital |-> h],
                     REQ_revoke_hospital(req, auth, h))
         /\ UNCHANGED <<created, rejected>>

CreateRequest ==
    /\ contract = "requests"
    /\ get_request_counter(req) < MaxRequests
    /\ \E auth \in BOOLEAN, h \in In.owners, bt \in In.types,
          q \in In.quantities, u \in In.urgencies, off \in In.offsets,
          addr \in In.addresses :
         LET a == [hospital_id |-> h, blood_type |-> bt, quantity_ml |-> q,
                   urgency |-> u, required_by |-> now + off,
                   delivery_address |-> addr]
             out == create_request(req, now, auth, a)
         IN /\ ReqApply("create_request", a, out)
            /\ created' = IF out.res.kind = "Ok" THEN created + 1 ELSE created
            /\ rejected' = (rejected \/ out.res.kind = "Err")

GetRequest ==
    /\ contract = "requests"
    /\ \E id \in In.ids :
         /\ ReqApply("get_request", [request_id |-> id],
                     REQ_get_request(req, id))
         /\ UNCHANGED <<created, rejected>>

IsHospitalAuthorized ==
    /\ contract = "requests"
    /\ \E panics \in BOOLEAN, h \in In.owners \cup In.admins :
         /\ ReqApply("is_hospital_authorized", [hospital |-> h],
                     REQ_is_hospital_authorized(req, panics, h))
         /\ UNCHANGED <<created, rejected>>

ApproveRequest ==
    /\ contract = "requests"
    /\ \E auth \in BOOLEAN, id \in In.ids :
         /\ ReqApply("approve_request", [request_id |-> id],
                     approve_request(req, now, auth, id))
         /\ UNCHANGED <<created, rejected>>

CancelRequest ==
    /\ contract = "requests"
    /\ \E auth \in BOOLEAN, id \in In.ids, caller \in In.callers :
         /\ ReqApply("cancel_request", [request_id |-> id, caller |-> caller],
                     cancel_request(req, now, auth, id, caller))
         /\ UNCHANGED <<created, rejected>>

\* the ledger closes: the timestamp moves forward
AdvanceClock ==
    /\ ticks < MaxClockSteps
    /\ \E d \in In.clock :
         /\ now' = now + d
         /\ ticks' = ticks + 1
    /\ UNCHANGED <<contract, workload, inv, req, last, created, rejected, probe>>

Next ==
    \/ InvInitialize
    \/ RegisterBlood
    \/ GetBloodUnit
    \/ ReqInitialize
    \/ AuthorizeHospital
    \/ RevokeHospital
    \/ CreateRequest
    \/ GetRequest
    \/ IsHospitalAuthorized
    \/ ApproveRequest
    \/ CancelRequest
    \/ AdvanceClock

Spec == Init /\ [][Next]_vars

----------------------------------------------------------------------------
(* The status functions of RequestStatus on their own: a status value, any *)
(* of the six to begin with, is put to can_transition_to and can_cancel    *)
(* and follows the transitions they allow.                                 *)

InitStatus ==
    /\ workload = "req_lifecycle"
    /\ Deployed
    /\ \E s \in RequestStatus :
          probe = [NoProbe EXCEPT !.trail = <<s>>]

Current == probe.trail[Len(probe.trail)]

TryTransition ==
    /\ \E to \in RequestStatus :
          LET answer == can_transition_to(Current, to)
          IN probe' = [op |-> "can_transition_to", from |-> Current,
                       to |-> to, answer |-> answer,
                       trail |-> IF answer THEN Append(probe.trail, to)
                                 ELSE probe.trail]
    /\ UNCHANGED <<contract, workload, now, inv, req, last, created,
                   rejected, ticks>>

TryCancel ==
    /\ LET answer == can_cancel(Current)
       IN probe' = [op |-> "can_cancel", from |-> Current,
                    to |-> "Cancelled", answer |-> answer,
                    trail |-> IF answer THEN Append(probe.trail, "Cancelled")
                              ELSE probe.trail]
    /\ UNCHANGED <<contract, workload, now, inv, req, last, created,
                   rejected, ticks>>

NextStatus ==
    \/ TryTransition
    \/ TryCancel

SpecStatus == InitStatus /\ [][NextStatus]_vars

----------------------------------------------------------------------------
(* Properties *)

IsCreate(c) == c.op \in {"register_blood", "create_request"}
Units == inv.BloodUnit
Requests == req.BloodRequest

\* C1: in each domain the Nth creation that succeeds returns the id N,
\* however many creation attempts were turned down before it.
C1_NthCreationReturnsN ==
    (IsCreate(last) /\ last.res.kind = "Ok") => last.res.val = created

\* the second creation succeeds after a creation was turned down
C1_Witness ==
    /\ IsCreate(last) /\ last.res.kind = "Ok"
    /\ last.res.val = 2 /\ rejected

\* C2: an operation that returns an error leaves the storage (counter,
\* records, index buckets, admin, allow-list) as it was and publishes no event.
C2_ErrorLeavesStateUnchanged ==
    [][last'.res.kind = "Err" =>
          /\ inv' = inv
          /\ req' = req
          /\ last'.ev = <<>>]_vars

\* a creation is turned down while a record is stored
C2_Witness ==
    /\ IsCreate(last) /\ last.res.kind = "Err"
    /\ created >= 1
    /\ last.res.err \in {"InvalidQuantity", "InvalidRequiredBy",
                         "InvalidExpiration", "InvalidDeliveryAddress"}

\* C3: right after a creation that returned id, get(id) yields the record
\* made of the arguments supplied, the ledger time of the call, the initial
\* status, no fulfilment time and no assigned units.
C3_GetAfterCreateRoundTrip ==
    /\ (last.op = "register_blood" /\ last.res.kind = "Ok") =>
         INV_get_blood_unit(inv, last.res.val).res =
            OkRec([id |-> last.res.val,
                blood_type |-> last.args.blood_type,
                quantity_ml |-> last.args.quantity_ml,
                bank_id |-> last.args.bank_id,
                donor_id |-> last.args.donor_id,
                donation_timestamp |-> last.at,
                expiration_timestamp |-> last.args.expiration_timestamp,
                status |-> "Available"])
    /\ (last.op = "create_request" /\ last.res.kind = "Ok") =>
         REQ_get_request(req, last.res.val).res =
            OkRec([id |-> last.res.val,
                hospital_id |-> last.args.hospital_id,
                blood_type |-> last.args.blood_type,
                quantity_ml |-> last.args.quantity_ml,
                urgency |-> last.args.urgency,
                status |-> "Pending",
                created_at |-> last.at,
                required_by |-> last.args.required_by,
                fulfilled_at |-> None,
                assigned_units |-> <<>>,
                delivery_address |-> last.args.delivery_address])

\* a unit with a donor was registered as the second one
C3_Witness ==
    /\ last.op = "register_blood" /\ last.res.kind = "Ok"
    /\ last.res.val = 2 /\ IsSome(last.args.donor_id)

\* the call reached the contract, initialized, from an authorized bank
InvAuthorizedCall ==
    /\ last.op = "register_blood" /\ last.res.kind # "Trap"
    /\ IsSome(inv.Admin) /\ last.args.bank_id = Unwrap(inv.Admin)

\* the call reached the contract, initialized, from an authorized hospital
ReqAuthorizedCall ==
    /\ last.op = "create_request" /\ last.res.kind # "Trap"
    /\ IsSome(req.Admin)
    /\ \/ last.args.hospital_id = Unwrap(req.Admin)
       \/ last.args.hospital_id \in req.AuthorizedHospital

InvExpirationValid ==
    /\ last.args.expiration_timestamp - last.at > 86400
    /\ last.args.expiration_timestamp - last.at <= 42 * 86400

MinLead(urgency) ==
    CASE urgency = "Critical" -> 3600
      [] urgency = "Urgent" -> 4 * 3600
      [] urgency = "Normal" -> 24 * 3600

ReqRequiredByValid ==
    /\ last.args.required_by - last.at >= MinLead(last.args.urgency)
    /\ last.args.required_by - last.at <= 30 * 86400

\* C4: from an authorized caller with otherwise valid arguments, a creation
\* with a quantity under 100 or over the ceiling (600 for units, 10000 for
\* requests) fails with InvalidQuantity, and one with exactly 100 or exactly
\* the ceiling succeeds.
C4_QuantityRange ==
    /\ (InvAuthorizedCall /\ InvExpirationValid) =>
         /\ (last.args.quantity_ml < 100 \/ last.args.quantity_ml > 600)
               => last.res = Err("InvalidQuantity")
         /\ last.args.quantity_ml \in {100, 600} => last.res.kind = "Ok"
    /\ (ReqAuthorizedCall /\ ReqRequiredByValid
            /\ last.args.delivery_address # "") =>
         /\ (last.args.quantity_ml < 100 \/ last.args.quantity_ml > 10000)
               => last.res = Err("InvalidQuantity")
         /\ last.args.quantity_ml \in {100, 10000} => last.res.kind = "Ok"

\* a unit of exactly 600 ml was registered
C4_Witness ==
    InvAuthorizedCall /\ last.args.quantity_ml = 600 /\ last.res.kind = "Ok"

\* C5: from an authorized bank with a valid quantity, register_blood at ledger
\* time t succeeds for an expiration of t + 86400 + 1 and of t + 42 * 86400,
\* and fails with InvalidExpiration for an expiration at or before t, under
\* one day after t, or more than 42 days after t.
C5_ExpirationWindow ==
    (InvAuthorizedCall /\ last.args.quantity_ml \in 100..600) =>
        LET shelf == last.args.expiration_timestamp - last.at
        IN /\ shelf \in {86400 + 1, 42 * 86400} => last.res.kind = "Ok"
           /\ (shelf <= 0 \/ shelf < 86400 \/ shelf > 42 * 86400)
                 => last.res = Err("InvalidExpiration")

\* a unit expiring twelve hours after the call was turned down
C5_Witness ==
    /\ InvAuthorizedCall
    /\ last.args.expiration_timestamp = last.at + 43200
    /\ last.res = Err("InvalidExpiration")

\* C6: every stored unit expires after its donation, at most 42 days and at
\* least 24 hours after it, and holds between 100 and 600 ml.
C6_BloodUnitInvariant ==
    \A id \in DOMAIN Units :
        LET u == Units[id]
        IN /\ u.expiration_timestamp > u.donation_timestamp
           /\ u.expiration_timestamp - u.donation_timestamp <= 42 * 86400
           /\ u.expiration_timestamp - u.donation_timestamp >= 24 * 3600
           /\ 100 <= u.quantity_ml /\ u.quantity_ml <= 600

\* a unit at the short end and a unit at the long end of the window are stored
C6_Witness ==
    /\ \E id \in DOMAIN Units :
          Units[id].expiration_timestamp - Units[id].donation_timestamp
             = 86400 + 1
    /\ \E id \in DOMAIN Units :
          Units[id].expiration_timestamp - Units[id].donation_timestamp
             = 42 * 86400

\* C7: every stored request is required after its creation, at least the
\* minimum lead time of its urgency and at most 30 days after it, has a
\* delivery address and asks for 100 to 10000 ml; a create_request with an
\* empty delivery address is turned down and stores nothing, with
\* InvalidDeliveryAddress when nothing else is wrong with the call.
C7_BloodRequestInvariant ==
    /\ \A id \in DOMAIN Requests :
          LET r == Requests[id]
          IN /\ r.required_by > r.created_at
             /\ r.required_by - r.created_at >= MinLead(r.urgency)
             /\ r.required_by - r.created_at <= 30 * 86400
             /\ r.delivery_address # ""
             /\ 100 <= r.quantity_ml /\ r.quantity_ml <= 10000
    /\ (last.op = "create_request" /\ last.res.kind # "Trap"
            /\ last.args.delivery_address = "") =>
          /\ last.res.kind = "Err"
          /\ Cardinality(DOMAIN Requests) = created
          /\ (ReqAuthorizedCall /\ ReqRequiredByValid
                 /\ last.args.quantity_ml \in 100..10000)
                => last.res = Err("InvalidDeliveryAddress")

\* a request without address was turned down while a request is stored
C7_Witness ==
    /\ last.op = "create_request"
    /\ last.res = Err("InvalidDeliveryAddress")
    /\ Requests # <<>>

\* C8: from an authorized hospital with otherwise valid arguments,
\* create_request fails with InvalidRequiredBy (code 17) when the lead time
\* is under the minimum of the urgency (1 h Critical, 4 h Urgent, 24 h Normal)
\* or over 30 days, and succeeds inside the window.
C8_UrgencyWindow ==
    (ReqAuthorizedCall /\ last.args.quantity_ml \in 100..10000
         /\ last.args.delivery_address # "") =>
        LET lead == last.args.required_by - last.at
        IN IF lead < MinLead(last.args.urgency) \/ lead > 30 * 86400
           THEN /\ last.res = Err("InvalidRequiredBy")
                /\ REQ_ContractError[last.res.err] = 17
           ELSE last.res.kind = "Ok"

\* an Urgent request two hours ahead was turned down
C8_Witness ==
    /\ ReqAuthorizedCall /\ last.args.urgency = "Urgent"
    /\ last.args.required_by = last.at + 2 * 3600
    /\ last.res = Err("InvalidRequiredBy")

\* C9: can_transition_to accepts Pending to Approved, Cancelled or Expired,
\* Approved to InDelivery, Cancelled or Expired, InDelivery to Completed, and
\* nothing else: nothing out of Completed, Cancelled or Expired, and no
\* status to itself.
C9_TransitionTable ==
    probe.op = "can_transition_to" =>
        (probe.answer <=>
            <<probe.from, probe.to>> \in
                {<<"Pending", "Approved">>, <<"Pending", "Cancelled">>,
                 <<"Pending", "Expired">>, <<"Approved", "InDelivery">>,
                 <<"Approved", "Cancelled">>, <<"Approved", "Expired">>,
                 <<"InDelivery", "Completed">>})

\* a status walked from Pending to Completed, then refused to leave it
C9_Witness ==
    /\ probe.trail = <<"Pending", "Approved", "InDelivery", "Completed">>
    /\ probe.op = "can_transition_to" /\ probe.from = "Completed"
    /\ ~probe.answer

Terminal == {"Cancelled", "Expired", "Completed"}

\* the step is an approve_request or cancel_request on id that reached the
\* contract
StatusCall(id) ==
    /\ last' # last
    /\ last'.op \in {"approve_request", "cancel_request"}
    /\ last'.res.kind # "Trap"
    /\ last'.args.request_id = id

\* C10 as stated: on a request in a terminal status every approve_request
\* fails with InvalidStatusTransition and every cancel_request with
\* CannotCancelRequest, and the status does not change.
C10_Original ==
    [][\A id \in DOMAIN Requests :
          Requests[id].status \in Terminal =>
             /\ req'.BloodRequest[id].status = Requests[id].status
             /\ StatusCall(id) =>
                   last'.res =
                      IF last'.op = "approve_request"
                      THEN Err("InvalidStatusTransition")
                      ELSE Err("CannotCancelRequest")]_vars

\* C10, amended: on a request in a terminal status approve_request fails with
\* InvalidStatusTransition, cancel_request fails with CannotCancelRequest
\* when the caller is the request's hospital or the admin and with
\* Unauthorized for any other caller, and the status does not change.
C10_TerminalStaysTerminal ==
    [][\A id \in DOMAIN Requests :
          Requests[id].status \in Terminal =>
             /\ req'.BloodRequest[id].status = Requests[id].status
             /\ StatusCall(id) =>
                   last'.res =
                      IF last'.op = "approve_request"
                      THEN Err("InvalidStatusTransition")
                      ELSE IF last'.args.caller \in
                                {Requests[id].hospital_id, Unwrap(req.Admin)}
                      THEN Err("CannotCancelRequest")
                      ELSE Err("Unauthorized")]_vars

\* the owner's second cancel_request of a request was turned down
C10_Witness ==
    /\ last.op = "cancel_request" /\ last.res = Err("CannotCancelRequest")
    /\ Requests[last.args.request_id].status = "Cancelled"
    /\ last.args.caller = Requests[last.args.request_id].hospital_id

\* the step is an approve_request on id that reached the contract
ApproveStep(id) ==
    /\ last' # last
    /\ last'.op = "approve_request" /\ last'.res.kind # "Trap"
    /\ last'.args.request_id = id

\* the step is a cancel_request on id that reached the contract
CancelStep(id) ==
    /\ last' # last
    /\ last'.op = "cancel_request" /\ last'.res.kind # "Trap"
    /\ last'.args.request_id = id

\* the hospital that created the request, and the admin
OwnerOrAdmin(id) == {Requests[id].hospital_id, Unwrap(req.Admin)}

\* C11: approve_request on a stored Pending request, authenticated by the
\* admin, succeeds and makes the request Approved exactly when required_by is
\* after the ledger time of the call; otherwise it fails with Expired (code
\* 22, another code than InvalidStatusTransition) and the request stays
\* Pending.
C11_ApproveIffNotExpired ==
    [][\A id \in DOMAIN Requests :
          (Requests[id].status = "Pending" /\ ApproveStep(id)) =>
             IF now < Requests[id].required_by
             THEN /\ last'.res = Ok(0)
                  /\ req'.BloodRequest[id].status = "Approved"
             ELSE /\ last'.res = Err("Expired")
                  /\ REQ_ContractError.Expired = 22
                  /\ REQ_ContractError.Expired
                        # REQ_ContractError.InvalidStatusTransition
                  /\ req'.BloodRequest[id].status = "Pending"]_vars

\* an approval at the very deadline was turned down, the request is Pending
C11_Witness ==
    /\ last.op = "approve_request" /\ last.res = Err("Expired")
    /\ Requests[last.args.request_id].status = "Pending"
    /\ last.at = Requests[last.args.request_id].required_by

\* C12: once the ledger clock is past the required_by of a Pending request,
\* approve_request fails with Expired, not InvalidStatusTransition, and
\* leaves it Pending, and a cancel_request by its hospital or the admin, also
\* right after that refusal, succeeds and makes it Cancelled.
C12_ExpiredCanStillBeCancelled ==
    [][\A id \in DOMAIN Requests :
          (Requests[id].status = "Pending" /\ now > Requests[id].required_by)
          => /\ ApproveStep(id) =>
                   /\ last'.res = Err("Expired")
                   /\ last'.res # Err("InvalidStatusTransition")
                   /\ req'.BloodRequest[id].status = "Pending"
             /\ (CancelStep(id) /\ last'.args.caller \in OwnerOrAdmin(id)) =>
                   /\ last'.res = Ok(0)
                   /\ req'.BloodRequest[id].status = "Cancelled"]_vars

\* a Pending request was cancelled after its deadline
C12_Witness ==
    /\ last.op = "cancel_request" /\ last.res = Ok(0)
    /\ last.at > Requests[last.args.request_id].required_by
    /\ Requests[last.args.request_id].status = "Cancelled"
    /\ last.ev[1].old_status = "Pending"

\* C13: approve_request on a stored request that is not Pending fails with
\* InvalidStatusTransition (code 41) at any ledger time, also after
\* required_by, and changes nothing; so a second approval fails.
C13_ApproveNonPendingFails ==
    [][\A id \in DOMAIN Requests :
          (Requests[id].status # "Pending" /\ ApproveStep(id)) =>
             /\ last'.res = Err("InvalidStatusTransition")
             /\ REQ_ContractError.InvalidStatusTransition = 41
             /\ req' = req]_vars

\* a second approval, after the deadline, was turned down
C13_Witness ==
    /\ last.op = "approve_request"
    /\ last.res = Err("InvalidStatusTransition")
    /\ Requests[last.args.request_id].status = "Approved"
    /\ last.at >= Requests[last.args.request_id].required_by

\* C14: cancel_request changes a request only for a caller that is its
\* hospital or the admin; from any other caller, on a request that could be
\* cancelled, it fails with Unauthorized (code 2) and changes nothing; a
\* request becomes Cancelled only by a cancel_request of its hospital or the
\* admin.
C14_OnlyOwnerOrAdminCancels ==
    [][\A id \in DOMAIN Requests :
          /\ (CancelStep(id) /\ can_cancel(Requests[id].status)
                 /\ last'.args.caller \notin OwnerOrAdmin(id)) =>
                /\ last'.res = Err("Unauthorized")
                /\ REQ_ContractError.Unauthorized = 2
                /\ req' = req
          /\ (CancelStep(id) /\ req' # req) =>
                last'.args.caller \in OwnerOrAdmin(id)
          /\ (Requests[id].status # "Cancelled"
                 /\ req'.BloodRequest[id].status = "Cancelled") =>
                /\ CancelStep(id) /\ last'.res = Ok(0)
                /\ last'.args.caller \in OwnerOrAdmin(id)]_vars

\* a stranger's cancel_request of an Approved request was turned down
C14_Witness ==
    /\ last.op = "cancel_request" /\ last.res = Err("Unauthorized")
    /\ Requests[last.args.request_id].status = "Approved"
    /\ last.args.caller # Requests[last.args.request_id].hospital_id
    /\ last.args.caller # Unwrap(req.Admin)

\* the stored request the last call created or addressed
Touched ==
    IF last.op = "create_request" /\ last.res.kind = "Ok"
    THEN {last.res.val}
    ELSE IF last.op \in {"approve_request", "cancel_request"}
            /\ last.res.kind # "Trap"
    THEN {last.args.request_id} \cap DOMAIN Requests
    ELSE {}

\* C15: cancel_request by the hospital of a stored request or by the admin
\* succeeds and makes the request Cancelled exactly when its status is
\* Pending or Approved, and fails with CannotCancelRequest (code 42) from
\* every other status, whichever status the request the last call created
\* or addressed is put in; a status that can be cancelled may legally move
\* to Cancelled.
C15_CancelOnlyFromPendingOrApproved ==
    /\ \A s \in RequestStatus :
          can_cancel(s) => can_transition_to(s, "Cancelled")
    /\ \A id \in Touched, s \in RequestStatus :
          \A caller \in OwnerOrAdmin(id) :
             LET st == set_blood_request(req, [Requests[id] EXCEPT !.status = s])
                 out == cancel_request(st, now, TRUE, id, caller)
             IN IF s \in {"Pending", "Approved"}
                THEN /\ out.res = Ok(0)
                     /\ out.st.BloodRequest[id].status = "Cancelled"
                ELSE /\ out.res = Err("CannotCancelRequest")
                     /\ REQ_ContractError.CannotCancelRequest = 42
                     /\ out.st = st
    /\ (last.op = "cancel_request" /\ last.res = Ok(0)) =>
          /\ last.ev[1].old_status \in {"Pending", "Approved"}
          /\ Requests[last.args.request_id].status = "Cancelled"
    /\ (last.op = "cancel_request" /\ last.res = Err("CannotCancelRequest"))
          => Requests[last.args.request_id].status
                \notin {"Pending", "Approved"}

\* the admin cancelled an Approved request of a hospital
C15_Witness ==
    /\ last.op = "cancel_request" /\ last.res = Ok(0)
    /\ last.ev[1].old_status = "Approved"
    /\ last.args.caller = Unwrap(req.Admin)
    /\ last.args.caller # Requests[last.args.request_id].hospital_id

\* the number of times id occurs in a bucket
Count(ids, id) == Cardinality({i \in DOMAIN ids : ids[i] = id})

\* C16: every stored request id occurs once in the status bucket of the
\* request's stored status and in no other status bucket, and a status
\* bucket holds ids of stored requests only.
C16_OneStatusBucket ==
    /\ DOMAIN req.StatusIndex \subseteq RequestStatus
    /\ \A id \in DOMAIN Requests, s \in RequestStatus :
          Count(get_requests_by_status(req, s), id) =
             IF s = Requests[id].status THEN 1 ELSE 0
    /\ \A s \in RequestStatus :
          \A i \in DOMAIN get_requests_by_status(req, s) :
             get_requests_by_status(req, s)[i] \in DOMAIN Requests

\* one request was approved and the other cancelled
C16_Witness ==
    /\ get_requests_by_status(req, "Pending") = <<>>
    /\ get_requests_by_status(req, "Approved") # <<>>
    /\ get_requests_by_status(req, "Cancelled") # <<>>
    /\ last.op \in {"approve_request", "cancel_request"}
    /\ last.res = Ok(0)

\* the ids 1 .. n in increasing order
IdSeq(n) == [i \in 1..n |-> i]

\* the ids of the stored units whose field f is k, in creation order
UnitsWith(f, k) ==
    SelectSeq(IdSeq(get_blood_unit_counter(inv)),
              LAMBDA i : i \in DOMAIN Units /\ Units[i][f] = k)

\* the ids of the stored requests whose field f is k, in creation order
RequestsWith(f, k) ==
    SelectSeq(IdSeq(get_request_counter(req)),
              LAMBDA i : i \in DOMAIN Requests /\ Requests[i][f] = k)

\* C17: for every blood type, owner (bank or hospital) and urgency, the
\* index bucket is the sequence of the ids of the stored records with that
\* value, in increasing id order without duplicates, and there is no bucket
\* (a query yields the empty sequence) for a value no record has.
C17_AttributeBuckets ==
    /\ DOMAIN inv.BloodTypeIndex = {Units[i].blood_type : i \in DOMAIN Units}
    /\ DOMAIN inv.BankIndex = {Units[i].bank_id : i \in DOMAIN Units}
    /\ DOMAIN req.BloodTypeIndex
          = {Requests[i].blood_type : i \in DOMAIN Requests}
    /\ DOMAIN req.HospitalIndex
          = {Requests[i].hospital_id : i \in DOMAIN Requests}
    /\ DOMAIN req.UrgencyIndex = {Requests[i].urgency : i \in DOMAIN Requests}
    /\ \A bt \in DOMAIN inv.BloodTypeIndex :
          GetVec(inv.BloodTypeIndex, bt) = UnitsWith("blood_type", bt)
    /\ \A a \in DOMAIN inv.BankIndex :
          GetVec(inv.BankIndex, a) = UnitsWith("bank_id", a)
    /\ \A bt \in DOMAIN req.BloodTypeIndex :
          get_requests_by_blood_type(req, bt) = RequestsWith("blood_type", bt)
    /\ \A a \in DOMAIN req.HospitalIndex :
          get_requests_by_hospital(req, a) = RequestsWith("hospital_id", a)
    /\ \A u \in DOMAIN req.UrgencyIndex :
          get_requests_by_urgency(req, u) = RequestsWith("urgency", u)

\* two hospitals each hold a request, both for the same blood type
C17_Witness ==
    /\ 1 \in DOMAIN Requests /\ 2 \in DOMAIN Requests
    /\ Requests[1].hospital_id # Requests[2].hospital_id
    /\ Requests[1].blood_type = Requests[2].blood_type
    /\ get_requests_by_blood_type(req, Requests[1].blood_type) = <<1, 2>>

\* the donors that stored units name
Donors ==
    {Unwrap(Units[i].donor_id) :
        i \in {j \in DOMAIN Units : IsSome(Units[j].donor_id)}}

\* C18: a unit registered without donor is stored without donor and touches
\* no donor bucket, a unit registered with a donor is appended to that
\* donor's bucket only: donor buckets exist for the donors of stored units
\* only, and the bucket of d is the ids of the units donated by d in creation
\* order.
C18_DonorBuckets ==
    /\ DOMAIN inv.DonorIndex = Donors
    /\ \A d \in Addresses :
          GetVec(inv.DonorIndex, d) = UnitsWith("donor_id", Some(d))
    /\ (last.op = "register_blood" /\ last.res.kind = "Ok") =>
          Units[last.res.val].donor_id = last.args.donor_id

\* an anonymous unit was registered after a unit with a donor
C18_Witness ==
    /\ last.op = "register_blood" /\ last.res.kind = "Ok"
    /\ last.res.val = 2 /\ last.args.donor_id = None
    /\ IsSome(Units[1].donor_id)
    /\ DOMAIN inv.DonorIndex = {Unwrap(Units[1].donor_id)}

\* C19: an approve_request or cancel_request of id that succeeds changes the
\* status field of that request and the buckets of its old and new status,
\* and nothing else: the other fields of the request, the other requests, the
\* id counter, the allow-list, the admin and the blood-type, hospital and
\* urgency buckets stay as they were.
C19_StatusChangeFrame ==
    [][\A id \in DOMAIN Requests :
          ((ApproveStep(id) \/ CancelStep(id)) /\ last'.res = Ok(0)) =>
             LET old == Requests[id].status
                 new == req'.BloodRequest[id].status
             IN /\ new = IF last'.op = "approve_request"
                         THEN "Approved" ELSE "Cancelled"
                /\ req'.BloodRequest = [Requests EXCEPT ![id].status = new]
                /\ \A s \in RequestStatus \ {old, new} :
                      get_requests_by_status(req', s)
                         = get_requests_by_status(req, s)
                /\ req' = [req EXCEPT !.BloodRequest = req'.BloodRequest,
                                      !.StatusIndex = req'.StatusIndex]
                /\ inv' = inv]_vars

\* one of two stored requests was approved
C19_Witness ==
    /\ last.op = "approve_request" /\ last.res = Ok(0)
    /\ Cardinality(DOMAIN Requests) = 2
    /\ \E id \in DOMAIN Requests : Requests[id].status = "Pending"
    /\ req.AuthorizedHospital # {}

\* the step is an initialize that reached the contract
InitializeStep ==
    /\ last' # last
    /\ last'.op = "initialize" /\ last'.res.kind # "Trap"

\* C20: in both contracts the first initialize stores the given admin and
\* every later initialize, with the same or another admin, fails with
\* AlreadyInitialized (code 0) and changes nothing: a stored admin never
\* changes.
C20_InitializeOnce ==
    [][/\ IsSome(inv.Admin) => inv'.Admin = inv.Admin
       /\ IsSome(req.Admin) => req'.Admin = req.Admin
       /\ InitializeStep =>
             LET was == IF contract = "inventory" THEN inv.Admin ELSE req.Admin
                 is == IF contract = "inventory" THEN inv'.Admin ELSE req'.Admin
             IN IF IsSome(was)
                THEN /\ last'.res = Err("AlreadyInitialized")
                     /\ INV_ContractError.AlreadyInitialized = 0
                     /\ REQ_ContractError.AlreadyInitialized = 0
                     /\ inv' = inv /\ req' = req
                ELSE /\ last'.res = Ok(0)
                     /\ is = Some(last'.args.admin)]_vars

\* an initialize naming another admin was turned down
C20_Witness ==
    /\ contract = "inventory"
    /\ last.op = "initialize" /\ last.res = Err("AlreadyInitialized")
    /\ IsSome(inv.Admin) /\ last.args.admin # Unwrap(inv.Admin)

\* C21: while no initialize has succeeded, register_blood, create_request,
\* approve_request, cancel_request, authorize_hospital and revoke_hospital
\* fail with NotInitialized (code 1) whatever their arguments, and the
\* storage stays as deployed.
C21_NotInitializedBeforeInitialize ==
    /\ (contract = "inventory" /\ ~IsSome(inv.Admin)) =>
          /\ inv = InvEmpty
          /\ (last.op = "register_blood" /\ last.res.kind # "Trap") =>
                /\ last.res = Err("NotInitialized")
                /\ INV_ContractError.NotInitialized = 1
    /\ (contract = "requests" /\ ~is_initialized(req)) =>
          /\ req = ReqEmpty
          /\ (last.op \in {"create_request", "approve_request",
                            "cancel_request", "authorize_hospital",
                            "revoke_hospital"}
                 /\ last.res.kind # "Trap") =>
                /\ last.res = Err("NotInitialized")
                /\ REQ_ContractError.NotInitialized = 1

\* an approve_request was turned down before any initialize
C21_Witness ==
    /\ ~is_initialized(req)
    /\ last.op = "approve_request" /\ last.res = Err("NotInitialized")

AllowListStep(op, h) ==
    /\ last' # last
    /\ last'.op = op /\ last'.res = Ok(0)
    /\ last'.args.hospital = h

\* the step is a create_request that reached the contract
CreateRequestStep ==
    /\ last' # last
    /\ last'.op = "create_request" /\ last'.res.kind # "Trap"

\* C24: a hospital h other than the admin is authorized exactly when the
\* latest successful authorize_hospital(h) or revoke_hospital(h) was an
\* authorize, and is not when there was none; is_hospital_authorized answers
\* accordingly; create_request by h can succeed only while h is authorized
\* and otherwise fails with NotAuthorizedHospital (code 32), allocating no
\* id.
C24_AllowListDecides ==
    [][/\ ~is_initialized(req) => req.AuthorizedHospital = {}
       /\ is_initialized(req') =>
             \A h \in Addresses \ {REQ_get_admin(req')} :
                LET was == is_authorized_hospital(req, h)
                    is == is_authorized_hospital(req', h)
                IN IF AllowListStep("authorize_hospital", h) THEN is
                   ELSE IF AllowListStep("revoke_hospital", h) THEN ~is
                   ELSE is = was
       /\ (last'.op = "is_hospital_authorized" /\ last'.res.kind # "Trap") =>
             last'.res =
                OkBool(is_authorized_hospital(req', last'.args.hospital))
       /\ (CreateRequestStep /\ is_initialized(req)) =>
             IF is_authorized_hospital(req, last'.args.hospital_id)
             THEN last'.res # Err("NotAuthorizedHospital")
             ELSE /\ last'.res = Err("NotAuthorizedHospital")
                  /\ REQ_ContractError.NotAuthorizedHospital = 32
                  /\ req' = req]_vars

\* a hospital that holds a request is turned down: it was revoked
C24_Witness ==
    /\ last.op = "create_request"
    /\ last.res = Err("NotAuthorizedHospital")
    /\ get_requests_by_hospital(req, last.args.hospital_id) # <<>>

\* C25: register_blood by a bank that is not the admin fails with
\* NotAuthorizedBloodBank (code 32) and stores nothing; every stored unit
\* belongs to the admin and at most one bank bucket is non-empty.
C25_OnlyAdminBank ==
    IsSome(inv.Admin) =>
        /\ (last.op = "register_blood" /\ last.res.kind # "Trap"
               /\ last.args.bank_id # get_admin(inv)) =>
              /\ last.res = Err("NotAuthorizedBloodBank")
              /\ INV_ContractError.NotAuthorizedBloodBank = 32
              /\ get_blood_unit_counter(inv) = created
              /\ Cardinality(DOMAIN Units) = created
        /\ \A id \in DOMAIN Units : Units[id].bank_id = get_admin(inv)
        /\ Cardinality({b \in DOMAIN inv.BankIndex :
                            inv.BankIndex[b] # <<>>}) <= 1

\* another bank than the admin was turned down while a unit is stored
C25_Witness ==
    /\ last.op = "register_blood"
    /\ last.res = Err("NotAuthorizedBloodBank")
    /\ Units # <<>>

\* the operations that announce what they did, and the topic of each
EmittingOps ==
    {"register_blood", "create_request", "approve_request", "cancel_request"}

TopicOf(op) ==
    CASE op = "register_blood" -> "blood_registered"
      [] op = "create_request" -> "request_created"
      [] OTHER -> "status_changed"

\* the event of the call just made describes what storage now holds
EventMatchesStorage ==
    LET e == last'.ev[1]
    IN CASE e.topic = "blood_registered" ->
              /\ e.blood_unit_id = last'.res.val
              /\ IsSome(get_blood_unit(inv', e.blood_unit_id))
              /\ LET u == Unwrap(get_blood_unit(inv', e.blood_unit_id))
                 IN /\ u.bank_id = e.bank_id /\ u.blood_type = e.blood_type
                    /\ u.quantity_ml = e.quantity_ml
                    /\ u.expiration_timestamp = e.expiration_timestamp
                    /\ \E k \in 1..Len(GetVec(inv'.BankIndex, u.bank_id)) :
                          GetVec(inv'.BankIndex, u.bank_id)[k] = u.id
                    /\ \E k \in 1..Len(GetVec(inv'.StatusIndex, u.status)) :
                          GetVec(inv'.StatusIndex, u.status)[k] = u.id
         [] e.topic = "request_created" ->
              /\ e.request_id = last'.res.val
              /\ IsSome(get_blood_request(req', e.request_id))
              /\ LET r == Unwrap(get_blood_request(req', e.request_id))
                 IN /\ r.hospital_id = e.hospital_id
                    /\ r.blood_type = e.blood_type
                    /\ r.quantity_ml = e.quantity_ml
                    /\ r.urgency = e.urgency /\ r.required_by = e.required_by
                    /\ \E k \in 1..Len(get_requests_by_status(req', r.status)) :
                          get_requests_by_status(req', r.status)[k] = r.id
         [] OTHER ->
              /\ e.request_id = last'.args.request_id
              /\ e.request_id \in DOMAIN Requests
              /\ e.old_status = Requests[e.request_id].status
              /\ e.new_status = req'.BloodRequest[e.request_id].status
              /\ \E k \in 1..Len(get_requests_by_status(req', e.new_status)) :
                    get_requests_by_status(req', e.new_status)[k] = e.request_id

\* C26: a successful register_blood, create_request, approve_request or
\* cancel_request emits exactly one event of its topic, describing what
\* was just stored; every other call emits none; and a request changes
\* status in a step exactly when that step emits a status_changed event
\* for it, so events and status changes are equal in number.
C26_OneEventPerMutation ==
    [][/\ last' # last =>
             IF last'.res.kind = "Ok" /\ last'.op \in EmittingOps
             THEN /\ Len(last'.ev) = 1
                  /\ last'.ev[1].topic = TopicOf(last'.op)
                  /\ EventMatchesStorage
             ELSE last'.ev = <<>>
       /\ \A id \in DOMAIN Requests :
             (req'.BloodRequest[id].status # Requests[id].status)
               <=> /\ last' # last
                   /\ last'.ev # <<>>
                   /\ last'.ev[1].topic = "status_changed"
                   /\ last'.ev[1].request_id = id]_vars

\* an approved request has been cancelled and the cancellation announced
C26_Witness ==
    /\ last.op = "cancel_request" /\ last.res = Ok(0)
    /\ Len(last.ev) = 1
    /\ last.ev[1].topic = "status_changed"
    /\ last.ev[1].old_status = "Approved"
    /\ last.ev[1].new_status = "Cancelled"

\* every bucket of the index after the step is the bucket before it, with
\* id appended at the end or not at all
GrewAtTail(before, after, id) ==
    /\ DOMAIN before \subseteq DOMAIN after
    /\ \A k \in DOMAIN after :
          \/ after[k] = GetVec(before, k)
          \/ after[k] = Append(GetVec(before, k), id)

\* C27: the calls of several callers run one after the other in some
\* order; in every such order a successful creation returns an ID that no
\* earlier creation was given and that is larger than all of them (the
\* n-th success in the order gets n), and it is appended at the tail of
\* the buckets it joins, so every bucket lists IDs in that same order.
C27_SerializationOrder ==
    [][(last' # last /\ last'.res.kind = "Ok"
          /\ last'.op \in {"register_blood", "create_request"}) =>
         LET id == last'.res.val
             old == IF last'.op = "register_blood"
                    THEN DOMAIN Units ELSE DOMAIN Requests
         IN /\ id \notin old
            /\ \A j \in old : j < id
            /\ id = Cardinality(old) + 1
            /\ GrewAtTail(inv.BloodTypeIndex, inv'.BloodTypeIndex, id)
            /\ GrewAtTail(inv.BankIndex, inv'.BankIndex, id)
            /\ GrewAtTail(inv.StatusIndex, inv'.StatusIndex, id)
            /\ GrewAtTail(inv.DonorIndex, inv'.DonorIndex, id)
            /\ GrewAtTail(req.BloodTypeIndex, req'.BloodTypeIndex, id)
            /\ GrewAtTail(req.HospitalIndex, req'.HospitalIndex, id)
            /\ GrewAtTail(req.StatusIndex, req'.StatusIndex, id)
            /\ GrewAtTail(req.UrgencyIndex, req'.UrgencyIndex, id)]_vars

\* two hospitals created one request each, after a rejected call, and
\* share a bucket that lists the two in the order they were served
C27_Witness ==
    /\ last.op = "create_request" /\ last.res = Ok(2)
    /\ rejected
    /\ Requests[1].hospital_id # Requests[2].hospital_id
    /\ \E u \in DOMAIN req.UrgencyIndex : req.UrgencyIndex[u] = <<1, 2>>

\* C28: in the unit domain every stored unit is Available, the Available
\* bucket is 1, 2, ..., counter in increasing order, and the bucket of
\* every other unit status is empty.
C28_AllUnitsAvailable ==
    /\ \A id \in DOMAIN Units : Units[id].status = "Available"
    /\ GetVec(inv.StatusIndex, "Available")
          = IdSeq(get_blood_unit_counter(inv))
    /\ DOMAIN inv.StatusIndex \subseteq {"Available"}
    /\ \A s \in BloodStatus \ {"Available"} :
          GetVec(inv.StatusIndex, s) = <<>>

\* two units are stored and a registration was turned down in between
C28_Witness ==
    /\ contract = "inventory"
    /\ get_blood_unit_counter(inv) = 2
    /\ GetVec(inv.StatusIndex, "Available") = <<1, 2>>
    /\ rejected

\* the checks that register_blood and create_request make before they
\* advance the ID counter all pass for the arguments a
ChecksBeforeCounterPass(op, a) ==
    IF op = "register_blood"
    THEN /\ IsSome(inv.Admin)
         /\ is_authorized_bank(inv, a.bank_id)
         /\ validate_blood_registration(now, a.quantity_ml,
                                        a.expiration_timestamp) = "Ok"
         /\ validate_minimum_shelf_life(now, a.expiration_timestamp) = "Ok"
    ELSE /\ is_initialized(req)
         /\ is_authorized_hospital(req, a.hospital_id)
         /\ validate_request_creation(now, a.quantity_ml, a.required_by,
                                      a.delivery_address) = "Ok"
         /\ validate_urgency_time_window(now, a.required_by,
                                         priority_weight(a.urgency)) = "Ok"

\* what the handler does from the advance of the counter onwards
FromCounterOn(op, a) ==
    IF op = "register_blood" THEN register_blood_commit(inv, now, a)
    ELSE create_request_commit(req, now, a)

InputVerdict ==
    LET a == last.args
        t == last.at
    IN IF last.op = "register_blood"
       THEN LET v1 == validate_blood_registration(t, a.quantity_ml,
                                                  a.expiration_timestamp)
            IN IF v1 # "Ok" THEN v1
               ELSE validate_minimum_shelf_life(t, a.expiration_timestamp)
       ELSE LET v1 == validate_request_creation(t, a.quantity_ml,
                                    a.required_by, a.delivery_address)
            IN IF v1 # "Ok" THEN v1
               ELSE validate_urgency_time_window(t, a.required_by,
                                                 priority_weight(a.urgency))

\* C30: a creation call reports the error of the first failing step in the
\* order initialization, authorization, input validation: NotInitialized
\* on an uninitialized contract whatever the inputs, NotAuthorizedBloodBank
\* or NotAuthorizedHospital for an unauthorized caller whatever the inputs,
\* and an input error only for an authorized caller.
C30_ErrorPrecedence ==
    (IsCreate(last) /\ last.res.kind # "Trap") =>
       LET reg == last.op = "register_blood"
           initialized == IF reg THEN IsSome(inv.Admin)
                          ELSE is_initialized(req)
           authorized == IF reg THEN is_authorized_bank(inv, last.args.bank_id)
                         ELSE is_authorized_hospital(req,
                                                     last.args.hospital_id)
       IN IF ~initialized THEN last.res = Err("NotInitialized")
          ELSE IF ~authorized
          THEN last.res = Err(IF reg THEN "NotAuthorizedBloodBank"
                              ELSE "NotAuthorizedHospital")
          ELSE IF InputVerdict # "Ok" THEN last.res = Err(InputVerdict)
          ELSE last.res.kind = "Ok"

\* a hospital that is not on the allow-list asked for 50 ml at an empty
\* address and was told that it is not authorized
C30_Witness ==
    /\ last.op = "create_request"
    /\ last.res = Err("NotAuthorizedHospital")
    /\ last.args.quantity_ml = 50
    /\ last.args.delivery_address = ""

\* the IDs of the sequence grow from left to right
IsAscending(ids) == \A i, j \in DOMAIN ids : i < j => ids[i] < ids[j]

AskedIds == 0..(MaxUnits + MaxRequests + 1)

\* a record is stored under id exactly when 1 <= id <= counter, and it
\* carries that id
StoredIffInRange ==
    /\ \A id \in AskedIds :
          /\ IsSome(get_blood_unit(inv, id))
                <=> id \in 1..get_blood_unit_counter(inv)
          /\ IsSome(get_blood_request(req, id))
                <=> id \in 1..get_request_counter(req)
    /\ \A id \in DOMAIN Units : Units[id].id = id
    /\ \A id \in DOMAIN Requests : Requests[id].id = id

\* the last call was a query for the record id, and what it must return
QueryReturns ==
    /\ (last.op = "get_blood_unit") =>
          last.res = IF last.args.blood_unit_id
                          \in 1..get_blood_unit_counter(inv)
                     THEN OkRec(Units[last.args.blood_unit_id])
                     ELSE Err("NotFound")
    /\ (last.op = "get_request") =>
          last.res = IF last.args.request_id \in 1..get_request_counter(req)
                     THEN OkRec(Requests[last.args.request_id])
                     ELSE Err("NotFound")
    /\ INV_ContractError.NotFound = 21 /\ REQ_ContractError.NotFound = 21

\* the last call was an approve_request or cancel_request that reached the
\* contract with an id outside 1..counter
StatusCallOnMissingId ==
    /\ last.op \in {"approve_request", "cancel_request"}
    /\ last.res.kind # "Trap"
    /\ last.args.request_id \notin 1..get_request_counter(req)

\* C32, as stated: in every reachable state a record is stored for id
\* exactly when 1 <= id <= counter, the queries return it or NotFound
\* accordingly, and approve_request and cancel_request on an id outside
\* that range fail with NotFound.
C32_Original ==
    /\ StoredIffInRange
    /\ QueryReturns
    /\ StatusCallOnMissingId => last.res = Err("NotFound")

\* C32, amended: as stated for the store and the queries; approve_request
\* and cancel_request on an id outside 1..counter fail with NotFound once
\* the contract is initialized, and with NotInitialized before that.
C32_RecordIffInRange ==
    /\ StoredIffInRange
    /\ QueryReturns
    /\ StatusCallOnMissingId =>
          last.res = IF is_initialized(req) THEN Err("NotFound")
                     ELSE Err("NotInitialized")

\* with one request stored, approve_request was asked for an id that was
\* never handed out
C32_Witness ==
    /\ last.op = "approve_request" /\ last.res = Err("NotFound")
    /\ get_request_counter(req) = 1
    /\ last.args.request_id \in {0, 2}

\* the statuses the public operations give to a request
ReachedStatuses == {"Pending", "Approved", "Cancelled"}

\* C33: whatever operations are called and however the clock advances, a
\* stored request is Pending, Approved or Cancelled, and the buckets of
\* InDelivery, Completed and Expired stay empty.
C33_OnlyThreeStatuses ==
    /\ \A id \in DOMAIN Requests : Requests[id].status \in ReachedStatuses
    /\ \A s \in RequestStatus \ ReachedStatuses :
          get_requests_by_status(req, s) = <<>>
    /\ DOMAIN req.StatusIndex \subseteq ReachedStatuses

\* the clock went past the deadline of a Pending request, the admin tried
\* to approve it, and it is still Pending
C33_Witness ==
    /\ last.op = "approve_request" /\ last.res = Err("Expired")
    /\ Requests[last.args.request_id].status = "Pending"
    /\ now > Requests[last.args.request_id].required_by
    /\ get_requests_by_status(req, "Cancelled") # <<>>

\* how far a status is along Pending -> Approved -> Cancelled
StatusRank(s) ==
    CASE s = "Pending" -> 0
      [] s = "Approved" -> 1
      [] s = "Cancelled" -> 2
      [] OTHER -> 3

\* C34: the status of a request changes only from Pending to Approved, from
\* Approved to Cancelled or from Pending to Cancelled; each change moves it
\* at least one place along the three places Pending, Approved, Cancelled,
\* so an Approved request is never Pending again, a Cancelled one stays
\* Cancelled, and no request changes status more than twice.
C34_StatusMovesForward ==
    [][\A id \in DOMAIN Requests :
          LET old == Requests[id].status
              new == req'.BloodRequest[id].status
          IN /\ StatusRank(new) \in 0..2
             /\ StatusRank(new) >= StatusRank(old)
             /\ new # old =>
                   /\ StatusRank(new) > StatusRank(old)
                   /\ <<old, new>> \in {<<"Pending", "Approved">>,
                                         <<"Approved", "Cancelled">>,
                                         <<"Pending", "Cancelled">>}]_vars

\* request 1 was approved and then cancelled, its second change of status,
\* after request 2 had been cancelled
C34_Witness ==
    /\ last.op = "cancel_request" /\ last.res = Ok(0)
    /\ last.args.request_id = 1
    /\ last.ev[1].old_status = "Approved"
    /\ get_requests_by_status(req, "Cancelled") = <<2, 1>>

\* C35: the ledger clock never goes backwards; a request becomes Approved
\* only at a ledger time not later than its required_by, so a Pending
\* request whose required_by the clock has passed is not Approved in any
\* later step: it stays Pending or becomes Cancelled, never Expired.
C35_NoApprovalAfterDeadline ==
    [][/\ now' >= now
       /\ \A id \in DOMAIN Requests :
             LET old == Requests[id].status
                 new == req'.BloodRequest[id].status
             IN /\ (old # "Approved" /\ new = "Approved") =>
                      /\ now <= Requests[id].required_by
                      /\ last'.op = "approve_request" /\ last'.at = now
                /\ (old = "Pending" /\ now > Requests[id].required_by) =>
                      new \in {"Pending", "Cancelled"}]_vars

\* request 1 was approved in time; the clock then went past the deadline of
\* request 2, which the admin could no longer approve
C35_Witness ==
    /\ last.op = "approve_request" /\ last.res = Err("Expired")
    /\ last.args.request_id = 2
    /\ now > Requests[2].required_by
    /\ Requests[1].status = "Approved" /\ Requests[2].status = "Pending"

\* C36: a successful authorize_hospital or revoke_hospital changes the
\* allow-list and nothing else: records, index buckets and the ID counter
\* are as before.  A hospital that is no longer authorized can still cancel
\* the requests it created (the outcome depends on the status only), but
\* its create_request fails with NotAuthorizedHospital.
C36_AllowListFrame ==
    [][/\ \A h \in Addresses :
             (AllowListStep("authorize_hospital", h)
                \/ AllowListStep("revoke_hospital", h)) =>
                /\ req' = [req EXCEPT
                             !.AuthorizedHospital = req'.AuthorizedHospital]
                /\ req'.AuthorizedHospital \in
                      {req.AuthorizedHospital \cup {h},
                       req.AuthorizedHospital \ {h}}
                /\ get_request_counter(req') = get_request_counter(req)
                /\ inv' = inv
       /\ \A id \in DOMAIN Requests :
             (CancelStep(id) /\ last'.args.caller = Requests[id].hospital_id
                /\ ~is_authorized_hospital(req, last'.args.caller)) =>
                IF can_cancel(Requests[id].status)
                THEN /\ last'.res = Ok(0)
                     /\ req'.BloodRequest[id].status = "Cancelled"
                ELSE last'.res = Err("CannotCancelRequest")
       /\ (CreateRequestStep /\ is_initialized(req)
             /\ ~is_authorized_hospital(req, last'.args.hospital_id)) =>
             /\ last'.res = Err("NotAuthorizedHospital")
             /\ req' = req]_vars

\* a hospital whose authorization was revoked has cancelled its request
C36_Witness ==
    /\ last.op = "cancel_request" /\ last.res = Ok(0)
    /\ last.args.caller = Requests[last.args.request_id].hospital_id
    /\ ~is_authorized_hospital(req, last.args.caller)

\* C37: a status_changed event tells the transition that took place: its
\* old_status is what the store held for the request before the call and
\* its new_status what it holds after, the two differ, and the event is
\* stamped with the ledger time.  An approval, announced as Pending to
\* Approved, succeeds on a Pending request only.
C37_EventTellsTransition ==
    [][(last' # last /\ last'.ev # <<>>
          /\ last'.ev[1].topic = "status_changed") =>
         LET e == last'.ev[1]
             id == e.request_id
         IN /\ Len(last'.ev) = 1
            /\ id \in DOMAIN Requests
            /\ id = last'.args.request_id
            /\ e.old_status = Requests[id].status
            /\ e.new_status = req'.BloodRequest[id].status
            /\ e.old_status # e.new_status
            /\ e.changed_at = now
            /\ last'.op = "approve_request" =>
                  /\ Requests[id].status = "Pending"
                  /\ e = emit_status_changed(now, id, "Pending", "Approved")
            /\ last'.op = "cancel_request" => e.new_status = "Cancelled"]_vars

\* request 1 and then request 2 were cancelled; the event of the second
\* cancellation tells that request 2 was Pending before
C37_Witness ==
    /\ last.op = "cancel_request" /\ last.res = Ok(0)
    /\ last.ev = <<emit_status_changed(now, 2, "Pending", "Cancelled")>>
    /\ get_requests_by_status(req, "Cancelled") = <<1, 2>>
    /\ get_requests_by_status(req, "Approved") = <<>>

\* C38: cancel_request reports the first failing check in the order
\* NotInitialized, NotFound, Unauthorized, CannotCancelRequest: an id that
\* is not stored gives NotFound whoever calls, and a caller who is neither
\* the hospital of the request nor the admin gets Unauthorized whatever the
\* status of the request, a Cancelled one included.
C38_CancelErrorPrecedence ==
    (last.op = "cancel_request" /\ last.res.kind # "Trap") =>
       LET id == last.args.request_id
       IN IF ~is_initialized(req) THEN last.res = Err("NotInitialized")
          ELSE IF ~IsSome(get_blood_request(req, id))
          THEN last.res = Err("NotFound")
          ELSE IF last.args.caller \notin OwnerOrAdmin(id)
          THEN last.res = Err("Unauthorized")
          ELSE /\ last.res \in {Ok(0), Err("CannotCancelRequest")}
               /\ Requests[id].status = "Cancelled"

\* someone who is neither the hospital nor the admin asked to cancel a
\* request that was Cancelled already
C38_Witness ==
    /\ last.op = "cancel_request" /\ last.res = Err("Unauthorized")
    /\ Requests[last.args.request_id].status = "Cancelled"
    /\ last.args.caller \notin OwnerOrAdmin(last.args.request_id)

====
